---- MODULE Spec2Model ----
(***************************************************************************)
(* PurrLauncher: the launcher's run (src/main.cpp) and the pack            *)
(* synchronisation, library resolver, version-manifest interpreter and     *)
(* launch-argument synthesizer of src/minecraft.cpp.                       *)
(*                                                                         *)
(* A std::string is a sequence of symbols.  The characters the code looks  *)
(* for ("$", "{", "}", " ", the quote and the backslash, and ":", "." and  *)
(* ";" in library names and paths) are symbols of their own; every other   *)
(* symbol stands for a run of characters that holds none of them.          *)
(* Positions are 0-based as in the code; npos is std::string::npos.        *)
(*                                                                         *)
(* The specifications that share the module:                               *)
(*   SpecSubst   the scanning loop of replacePlaceholders,                 *)
(*   SpecRules   the rule loops of isLibraryCompatible and                 *)
(*               shouldIncludeConditionalArg,                              *)
(*   Spec        launchMinecraft from loadVersionJson to the process       *)
(*               spawn,                                                    *)
(*   SpecWriter  writeLaunchArgs over tokens with spaces, quotes and       *)
(*               backslashes,                                              *)
(*   SpecBuild   buildClasspathFromJson over a game directory,             *)
(*   SpecPack    runs of main up to the saved configuration, with          *)
(*               updatePack, over the same game directory and pack server, *)
(*   SpecMain    one run of main from loadConfig to its return,            *)
(*   SpecNet     downloadFile and httpGet with their retries,              *)
(*   SpecAuth    authenticateUser and the launchMinecraft that main calls  *)
(*               with the access token it leaves.                          *)
(*                                                                         *)
(* The pack archive is followed through the five items updatePack deletes; *)
(* what else it unpacks (versions/, libraries/) is the game directory that *)
(* buildClasspathFromJson and launchMinecraft meet.                        *)
(***************************************************************************)
EXTENDS Integers, Sequences, FiniteSets, TLC

VARIABLES
    \* replacePlaceholders (SpecSubst)
    substArg,       \* the parameter arg
    substMap,       \* the parameter placeholders
    result,         \* the local result
    pos,            \* the local pos
    substPc,        \* "idle" | "scan" (at the while condition) | "done"
    \* isLibraryCompatible / shouldIncludeConditionalArg (SpecRules)
    ruleFn,         \* "lib" | "arg": which of the two functions runs
    rules,          \* the "rules" member: NoRules or a sequence of rules
    ruleIdx,        \* the rules already visited by the range-for, plus 1
    include,        \* the local include / includeArg; at "done" the value returned
    rulePc,         \* "idle" | "entry" | "loop" | "done"
    \* launchMinecraft (Spec)
    pc,             \* the statement launchMinecraft is at
    j,              \* the members of the parsed version JSON that are read
    accessToken,    \* the parameter accessToken
    max_ram,        \* the parameter max_ram
    authlibJar,     \* whether <gameDir>libraries/authlib-injector.jar exists
    mainClass,      \* the local mainClass
    cp,             \* the local cp
    placeholders,   \* the local placeholders
    jvmArgs,        \* the local jvmArgs
    gameArgs,       \* the local gameArgs
    arg,            \* the element the range-for over a modern list is at
    argCount,       \* the elements of that list already visited
    launchFile,     \* <gameDir>launch_args.txt, as its lines
    command,        \* the command given to system(), NoCommand before
    launchLog,      \* the messages launchMinecraft has logged
    \* the files of the game directory that the launch reads
    versionFile,    \* <gameDir>versions/<v>/<v>.json
    classpathFile,  \* <gameDir>classpath.txt
    \* buildClasspathFromJson (SpecBuild)
    buildPc,        \* the statement buildClasspathFromJson is at
    buildJ,         \* the local j: the parsed version JSON
    libIdx,         \* the libraries already visited by the range-for, plus 1
    classpathEntries, \* the local classpathEntries
    buildResult,    \* "none" until the pass returns, then "true" | "false"
    buildOut,       \* what the pass has written to std::cout / std::cerr
    clientJar,      \* whether <gameDir>versions/<v>/<v>.jar exists
    libFiles,       \* the files that exist under <gameDir>libraries/
    nativesDir,     \* <gameDir>natives/: "empty" (or missing) | "populated"
    tempJar,        \* whether <gameDir>temp_natives.jar exists
    \* main and updatePack (SpecPack, SpecMain)
    mainPc,         \* the statement main is at, or how the run ended
    runs,           \* the runs of the launcher started so far
    prevRun,        \* how the run before this one ended
    configFile,     \* config.json, as loadConfig reads its pack members
    hasUrls,        \* config.pack_url and config.pack_manifest_url non-empty
    pack_version,   \* config.pack_version
    remoteManifest, \* the document served at pack_manifest_url
    archive,        \* the pack items the archive served at pack_url holds
    remote_version, \* the local remote_version
    tempManifest,   \* whether <gameDir>remote_manifest.json exists
    packZip,        \* whether <gameDir>pack.zip exists
    tree,           \* what each pack item of the game directory holds
    packPc,         \* the statement updatePack is at
    packResult,     \* "none" until updatePack returns, then "true" | "false"
    packSteps,      \* the steps this call of updatePack has been through
    deleteFailed,   \* the items this call logged "Failed to delete" for
    \* downloadFile (SpecNet)
    dlPc,           \* "idle" | "attempt" (at the top of the for body) | "returned"
    dlAttempt,      \* the loop variable attempt
    dlFile,         \* what is at outputPath: "none" | "old" | "partial" | "complete"
    dlResult,       \* "none" until downloadFile returns, then "true" | "false"
    dlTransfers,    \* the calls of curl_easy_perform for the transfer so far
    dlLog,          \* how each attempt ended
    \* httpGet (SpecNet)
    getPc,          \* "idle" | "attempt" | "returned"
    getAttempt,     \* the loop variable attempt
    getRequests,    \* the calls of curl_easy_perform so far
    getFailures,    \* the attempts that failed so far
    getResponse,    \* the string returned
    \* authenticateUser (SpecAuth)
    authPc,         \* "idle" | "validate" | "yggdrasil" | "parse" | "returned"
    yggResponse,    \* what httpPost returned from /authserver/authenticate
    authResult,     \* "none" until authenticateUser returns, then "true" | "false"
    authUserType,   \* the out-parameter userType
    authUsername,   \* config.username
    authUuid,       \* config.uuid
    authLog         \* what authenticateUser has logged

substVars == <<substArg, substMap, result, pos, substPc>>
ruleVars == <<ruleFn, rules, ruleIdx, include, rulePc>>
launchVars == <<pc, j, accessToken, max_ram, authlibJar, mainClass, cp,
                placeholders, jvmArgs, gameArgs, arg, argCount, launchFile,
                command, launchLog>>
diskVars == <<versionFile, classpathFile>>
buildVars == <<buildPc, buildJ, libIdx, classpathEntries, buildResult, buildOut,
               clientJar, libFiles, nativesDir, tempJar>>
packVars == <<configFile, hasUrls, pack_version, remoteManifest, archive,
              remote_version, tempManifest, packZip, tree, packPc, packResult,
              packSteps, deleteFailed>>
mainVars == <<mainPc, runs, prevRun>>
netVars == <<dlPc, dlAttempt, dlFile, dlResult, dlTransfers, dlLog, getPc,
             getAttempt, getRequests, getFailures, getResponse>>
authVars == <<authPc, yggResponse, authResult, authUserType, authUsername,
              authUuid, authLog>>
ioVars == <<netVars, authVars>>

\* What the steps of one operation leave alone.
notSubstVars == <<ruleVars, launchVars, diskVars, buildVars, packVars, mainVars,
    ioVars>>
notRuleVars == <<substVars, launchVars, diskVars, buildVars, packVars, mainVars,
    ioVars>>
notLaunchVars == <<substVars, ruleVars, diskVars, buildVars, packVars, mainVars,
    ioVars>>
notBuildVars == <<substVars, ruleVars, launchVars, versionFile, packVars, mainVars,
    ioVars>>
notPackVars == <<substVars, ruleVars, launchVars, diskVars, buildVars, mainVars,
    ioVars>>

---------------------------------------------------------------------------
(* Bounds of the model.                                                    *)

MaxTemplateLen == 7
MaxRules == 3
MaxTokens == 2
MaxTokenLen == 2
MaxLibs == 2
MaxRuns == 2

\* constexpr int MAX_RETRIES = 3 (downloadFile and httpGet)
MAX_RETRIES == 3

---------------------------------------------------------------------------
(* std::string                                                             *)

npos == -1

Min(S) == CHOOSE x \in S : \A y \in S : x <= y

\* s.find(pat, from): the first 0-based index >= from where pat occurs.
Find(s, pat, from) ==
    LET hits == {i \in from .. (Len(s) - Len(pat)) :
                    SubSeq(s, i + 1, i + Len(pat)) = pat}
    IN IF hits = {} THEN npos ELSE Min(hits)

\* s.substr(start, n)
Substr(s, start, n) == SubSeq(s, start + 1, start + n)

\* s.replace(start, n, v)
StrReplace(s, start, n, v) ==
    SubSeq(s, 1, start) \o v \o SubSeq(s, start + n + 1, Len(s))

---------------------------------------------------------------------------
(* replacePlaceholders                                                     *)

\* A rescan of the inserted value: pos is left at the start of the value.
AdvancePastValue_Rescan(p, value) == p

\* pos += it->second.length()
AdvancePastValue(p, value) == p + Len(value)

\* One symbol too far: the "$" of a span that follows at once is missed.
SkipUnknownSpan_OffByOne(end) == end + 2

\* pos = end + 1
SkipUnknownSpan(end) == end + 1

\* One evaluation of the while condition and, when it holds, of the body:
\* done tells whether the loop is left (condition false, or break).
ScanBody(res, from, ph) ==
    LET p == Find(res, <<"$", "{">>, from)
    IN IF p = npos
       THEN [done |-> TRUE, result |-> res, pos |-> npos]
       ELSE LET end == Find(res, <<"}">>, p)
            IN IF end = npos
               THEN [done |-> TRUE, result |-> res, pos |-> p]
               ELSE LET key == Substr(res, p + 2, end - p - 2)
                    IN IF key \in DOMAIN ph
                       THEN [done |-> FALSE,
                             result |-> StrReplace(res, p, end - p + 1, ph[key]),
                             pos |-> AdvancePastValue(p, ph[key])]
                       ELSE [done |-> FALSE, result |-> res,
                             pos |-> SkipUnknownSpan(end)]

RECURSIVE ScanLoop(_, _, _)
ScanLoop(res, from, ph) ==
    LET b == ScanBody(res, from, ph)
    IN IF b.done THEN b.result ELSE ScanLoop(b.result, b.pos, ph)

\* The function as its callers use it.
replacePlaceholders(a, ph) == ScanLoop(a, 0, ph)

\* Inputs of SpecSubst: every template over SubstAlphabet up to
\* MaxTemplateLen symbols, and three maps with the keys "a" and "aa"; the
\* value of "aa" holds a whole span, the head of a span, the tail of a span.
SubstAlphabet == {"$", "{", "}", "a"}

Templates == UNION {[1 .. n -> SubstAlphabet] : n \in 0 .. MaxTemplateLen}

SubstMaps ==
    { (<<"a">> :> <<"v">>) @@ (<<"a", "a">> :> <<"$", "{", "a", "}">>),
      (<<"a">> :> <<"v">>) @@ (<<"a", "a">> :> <<"$", "{", "a">>),
      (<<"a">> :> <<>>)    @@ (<<"a", "a">> :> <<"{", "a", "}">>) }

SubstIdle ==
    /\ substArg = <<>>
    /\ substMap = <<>>
    /\ result = <<>>
    /\ pos = 0
    /\ substPc = "idle"

RuleIdle ==
    /\ ruleFn = "none"
    /\ rules = <<>>
    /\ ruleIdx = 1
    /\ include = FALSE
    /\ rulePc = "idle"

\* std::string result = arg; size_t pos = 0;
SubstInit ==
    /\ substArg \in Templates
    /\ substMap \in SubstMaps
    /\ result = substArg
    /\ pos = 0
    /\ substPc = "scan"

\* The while condition holds and the body runs to its end.
ScanStep ==
    /\ substPc = "scan"
    /\ ~ScanBody(result, pos, substMap).done
    /\ result' = ScanBody(result, pos, substMap).result
    /\ pos' = ScanBody(result, pos, substMap).pos
    /\ UNCHANGED <<substArg, substMap, substPc>>

\* The while condition fails, or the body breaks: return result.
ScanExit ==
    /\ substPc = "scan"
    /\ ScanBody(result, pos, substMap).done
    /\ pos' = ScanBody(result, pos, substMap).pos
    /\ substPc' = "done"
    /\ UNCHANGED <<substArg, substMap, result>>

---------------------------------------------------------------------------
(* Rules: isLibraryCompatible and shouldIncludeConditionalArg              *)

\* A rule object of the manifest.  action: "absent" (no "action" member) or
\* the string it holds; os: "absent" (no os.name) or the name; features:
\* whether the rule has a "features" member.
RuleActions == {"absent", "allow", "disallow", "other"}
RuleOsNames == {"absent", "windows", "linux"}

RuleSet ==
    {r \in [action : RuleActions, os : RuleOsNames, features : BOOLEAN] :
        r.features => r.os = "absent"}

RuleLists == UNION {[1 .. n -> RuleSet] : n \in 0 .. MaxRules}

\* The "rules" member of a library or of an argument object.
NoRules == [present |-> FALSE, list |-> <<>>]
RulesMembers == {NoRules} \cup {[present |-> TRUE, list |-> l] : l \in RuleLists}

\* The last rule that applies decides: a matching allow sets include again.
LibRuleBody_LastMatchWins(inc, rule) ==
    IF rule.action = "absent" THEN inc
    ELSE LET osMatch == IF rule.os # "absent" THEN rule.os = "windows" ELSE TRUE
         IN IF rule.action = "allow" THEN osMatch
            ELSE IF rule.action = "disallow" /\ osMatch THEN FALSE
            ELSE inc

\* A rule without os.name matches no OS.
LibRuleBody_NoOsNoMatch(inc, rule) ==
    IF rule.action = "absent" THEN inc
    ELSE LET osMatch == rule.os = "windows"
         IN IF rule.action = "allow" /\ ~osMatch THEN FALSE
            ELSE IF rule.action = "disallow" /\ osMatch THEN FALSE
            ELSE inc

\* The body of the range-for of isLibraryCompatible.
LibRuleBody(inc, rule) ==
    IF rule.action = "absent" THEN inc
    ELSE LET osMatch == IF rule.os # "absent" THEN rule.os = "windows" ELSE TRUE
         IN IF rule.action = "allow" /\ ~osMatch THEN FALSE
            ELSE IF rule.action = "disallow" /\ osMatch THEN FALSE
            ELSE inc

\* The body of the range-for of shouldIncludeConditionalArg.
ArgRuleBody(inc, rule) ==
    IF rule.action = "absent" THEN inc
    ELSE LET osMatch == IF rule.os # "absent" THEN rule.os = "windows" ELSE TRUE
         IN IF rule.action = "allow" /\ ~osMatch THEN FALSE
            ELSE IF rule.action = "disallow" /\ osMatch THEN FALSE
            ELSE inc

RuleBody(fn, inc, rule) ==
    IF fn = "lib" THEN LibRuleBody(inc, rule) ELSE ArgRuleBody(inc, rule)

\* The loop leaves at the first rule that cleared include.
RuleLoopContinues_EarlyExit(inc, idx, list) == inc /\ idx <= Len(list)

\* The range-for goes on while a rule is left.
RuleLoopContinues(inc, idx, list) == idx <= Len(list)

RECURSIVE RuleLoop(_, _, _, _)
RuleLoop(fn, inc, idx, list) ==
    IF RuleLoopContinues(inc, idx, list)
    THEN RuleLoop(fn, RuleBody(fn, inc, list[idx]), idx + 1, list)
    ELSE inc

\* The two functions as their callers use them, on the "rules" member.
isLibraryCompatible(member) ==
    IF ~member.present THEN TRUE ELSE RuleLoop("lib", TRUE, 1, member.list)

shouldIncludeConditionalArg(member) ==
    IF ~member.present THEN TRUE ELSE RuleLoop("arg", TRUE, 1, member.list)

RuleInit ==
    /\ ruleFn \in {"lib", "arg"}
    /\ rules \in RulesMembers
    /\ ruleIdx = 1
    /\ include = FALSE
    /\ rulePc = "entry"

\* if (!contains("rules")) return true;  bool include = true;
RuleEnter ==
    /\ rulePc = "entry"
    /\ include' = TRUE
    /\ rulePc' = IF rules.present THEN "loop" ELSE "done"
    /\ UNCHANGED <<ruleFn, rules, ruleIdx>>

\* One pass of the range-for.
RuleStep ==
    /\ rulePc = "loop"
    /\ RuleLoopContinues(include, ruleIdx, rules.list)
    /\ include' = RuleBody(ruleFn, include, rules.list[ruleIdx])
    /\ ruleIdx' = ruleIdx + 1
    /\ UNCHANGED <<ruleFn, rules, rulePc>>

\* return include;
RuleReturn ==
    /\ rulePc = "loop"
    /\ ~RuleLoopContinues(include, ruleIdx, rules.list)
    /\ rulePc' = "done"
    /\ UNCHANGED <<ruleFn, rules, ruleIdx, include>>

RuleNext ==
    \/ RuleEnter /\ UNCHANGED notRuleVars
    \/ RuleStep /\ UNCHANGED notRuleVars
    \/ RuleReturn /\ UNCHANGED notRuleVars

---------------------------------------------------------------------------
(* launchMinecraft                                                         *)

\* The parameters that are only copied into arguments.
username == <<"Steve">>
uuid == <<"uuid-1">>
version == <<"1.20.1">>
gameDir == <<"C:/game/">>
userType == <<"mojang">>
api_url == <<"https://auth.example/api">>

AccessTokens == {<<>>, <<"0">>, <<"token-1">>}
MaxRams == {<<>>, <<"4G">>}

DefaultMainClass == <<"cpw.mods.bootstraplauncher.BootstrapLauncher">>
CertAgent == <<"-Dauthlibinjector.yggdrasil.prefetched=ewog...">>

\* The version JSON: mainClass and assets are "absent" or the string held
\* (assetIndexId: the string at assetIndex.id); arguments tells whether the
\* "arguments" object is there, and for each side whether it holds an array.
\* libraries: whether the member is an array, and its elements.
NoLibraries == [isArray |-> FALSE, list |-> <<>>]
Libraries(l) == [isArray |-> TRUE, list |-> l]

NoJson ==
    [mainClass |-> <<>>, assets |-> <<>>, assetIndexId |-> <<>>,
     arguments |-> FALSE, jvm |-> FALSE, game |-> FALSE,
     libraries |-> NoLibraries]

VersionJsons ==
    {m \in [mainClass : {<<>>, <<"net.minecraft.client.main.Main">>},
            assets : {<<>>, <<"1.20">>},
            assetIndexId : {<<>>, <<"5-idx">>},
            arguments : BOOLEAN, jvm : BOOLEAN, game : BOOLEAN,
            libraries : {NoLibraries}] :
        /\ (m.jvm \/ m.game) => m.arguments
        /\ m.assets # <<>> => m.assetIndexId = <<>>}

\* The version JSON as a file: missing, unparseable, or holding a manifest.
NoVersionFile == [present |-> FALSE, parses |-> FALSE, json |-> NoJson]
BadVersionFile == [present |-> TRUE, parses |-> FALSE, json |-> NoJson]
VersionFile(m) == [present |-> TRUE, parses |-> TRUE, json |-> m]

VersionFiles ==
    {NoVersionFile, BadVersionFile} \cup {VersionFile(m) : m \in VersionJsons}

\* classpath.txt: missing, or holding a text.
NoTextFile == [present |-> FALSE, text |-> <<>>]
TextFile(t) == [present |-> TRUE, text |-> t]

ClasspathFiles ==
    { NoTextFile,
      TextFile(<<"C:/game/libraries/a.jar", ";",
                 "C:/game/versions/1.20.1/1.20.1.jar">>) }

\* An element of arguments.jvm / arguments.game.  kind: "null", "string"
\* (str), "object" (rules, value) or "other" (a number, a boolean, an array).
\* value: kind "absent", "string" (str), "array" (items) or "other"; an item
\* of an array is a string or not.
NoValue == [kind |-> "absent", str |-> <<>>, items |-> <<>>]
StringValue(x) == [kind |-> "string", str |-> x, items |-> <<>>]
ArrayValue(xs) == [kind |-> "array", str |-> <<>>, items |-> xs]
StringItem(x) == [isString |-> TRUE, str |-> x]
OtherItem == [isString |-> FALSE, str |-> <<>>]

NoArg == [kind |-> "none", str |-> <<>>, rules |-> NoRules, value |-> NoValue]
NullArg == [kind |-> "null", str |-> <<>>, rules |-> NoRules, value |-> NoValue]
OtherArg == [kind |-> "other", str |-> <<>>, rules |-> NoRules, value |-> NoValue]
StringArg(x) == [kind |-> "string", str |-> x, rules |-> NoRules, value |-> NoValue]
ObjectArg(r, v) == [kind |-> "object", str |-> <<>>, rules |-> r, value |-> v]

Rule(a, o, f) == [action |-> a, os |-> o, features |-> f]
RulesOf(l) == [present |-> TRUE, list |-> l]

\* The elements the modern lists are drawn from: the rule lists of the
\* shipped manifests (OS-gated JVM arguments, feature-gated game arguments)
\* and their variants; SpecRules covers every rule list.  The JSON does not
\* change once loaded, so an element is drawn when the range-for reaches it,
\* and a list has up to MaxTokens elements.
ArgRules ==
    { NoRules,
      RulesOf(<< Rule("allow", "windows", FALSE) >>),
      RulesOf(<< Rule("allow", "linux", FALSE) >>),
      RulesOf(<< Rule("allow", "absent", TRUE) >>),
      RulesOf(<< Rule("absent", "absent", TRUE) >>),
      RulesOf(<< Rule("allow", "windows", FALSE), Rule("disallow", "absent", TRUE) >>) }

ArgString == <<"-Dname=", "$", "{", "launcher_name", "}">>

ArgValues ==
    { NoValue,
      StringValue(ArgString),
      ArrayValue(<< StringItem(<<"--user">>), OtherItem,
                    StringItem(<<"$", "{", "auth_player_name", "}">>) >>) }

ArgTokens ==
    { NullArg, OtherArg, StringArg(ArgString) }
    \cup { ObjectArg(r, v) : r \in ArgRules, v \in ArgValues }

\* getAssetIndexId
getAssetIndexId(m) ==
    IF m.assets # <<>> THEN m.assets
    ELSE IF m.assetIndexId # <<>> THEN m.assetIndexId
    ELSE <<"5">>

\* createPlaceholderMap
createPlaceholderMap(user, ver, dir, assetIndex, id, token, type, classpath) ==
    (<<"auth_player_name">> :> user) @@
    (<<"version_name">> :> ver) @@
    (<<"game_directory">> :> dir) @@
    (<<"assets_root">> :> dir \o <<"assets">>) @@
    (<<"assets_index_name">> :> assetIndex) @@
    (<<"auth_uuid">> :> id) @@
    (<<"auth_access_token">> :> token) @@
    (<<"user_type">> :> type) @@
    (<<"version_type">> :> <<"release">>) @@
    (<<"resolution_width">> :> <<"854">>) @@
    (<<"resolution_height">> :> <<"480">>) @@
    (<<"classpath">> :> classpath) @@
    (<<"natives_directory">> :> dir \o <<"natives">>) @@
    (<<"launcher_name">> :> <<"PurrLauncher">>) @@
    (<<"launcher_version">> :> <<"2.4.104">>) @@
    (<<"clientid">> :> <<>>) @@
    (<<"auth_xuid">> :> <<>>) @@
    (<<"quickPlayPath">> :> <<>>) @@
    (<<"quickPlaySingleplayer">> :> <<>>) @@
    (<<"quickPlayMultiplayer">> :> <<>>) @@
    (<<"quickPlayRealms">> :> <<>>) @@
    (<<"fml.forgeVersion">> :> <<"47.4.6">>) @@
    (<<"fml.mcVersion">> :> <<"1.20.1">>) @@
    (<<"fml.forgeGroup">> :> <<"net.minecraftforge">>) @@
    (<<"fml.mcpVersion">> :> <<"20230612.114412">>) @@
    (<<"library_directory">> :> dir \o <<"libraries">>) @@
    (<<"classpath_separator">> :> <<";">>)

\* addConditionalArgs: what it appends for an object element.
RECURSIVE ArrayStrings(_, _)
ArrayStrings(items, ph) ==
    IF items = <<>> THEN <<>>
    ELSE (IF Head(items).isString
          THEN << replacePlaceholders(Head(items).str, ph) >>
          ELSE <<>>) \o ArrayStrings(Tail(items), ph)

addConditionalArgs(a, ph) ==
    IF a.value.kind = "absent" THEN <<>>
    ELSE IF a.value.kind = "string" THEN << replacePlaceholders(a.value.str, ph) >>
    ELSE IF a.value.kind = "array" THEN ArrayStrings(a.value.items, ph)
    ELSE <<>>

\* The body of the range-for of processModernJvmArgs: what it appends.
processModernJvmArgsBody(a, ph) ==
    IF a.kind = "null" THEN <<>>
    ELSE IF a.kind = "string" THEN << replacePlaceholders(a.str, ph) >>
    ELSE IF a.kind = "object" /\ shouldIncludeConditionalArg(a.rules)
         THEN addConditionalArgs(a, ph)
    ELSE <<>>

\* The rules loop inside processModernGameArgs: includeArg after it.
RECURSIVE GameRulesLoop(_, _)
GameRulesLoop(list, idx) ==
    IF idx > Len(list) THEN TRUE
    ELSE IF list[idx].action # "absent" /\ list[idx].features THEN FALSE
    ELSE GameRulesLoop(list, idx + 1)

gameIncludeArg(member) ==
    IF member.present THEN GameRulesLoop(member.list, 1) ELSE TRUE

\* The body of the range-for of processModernGameArgs: what it appends.
processModernGameArgsBody(a, ph) ==
    IF a.kind = "null" THEN <<>>
    ELSE IF a.kind = "string" THEN << replacePlaceholders(a.str, ph) >>
    ELSE IF a.kind = "object"
         THEN IF gameIncludeArg(a.rules) /\ a.value.kind # "absent"
              THEN addConditionalArgs(a, ph)
              ELSE <<>>
    ELSE <<>>

\* The agent tokens are appended behind the manifest's arguments.
InsertAgent_AtEnd(args, cert, agent) == args \o <<cert, agent>>

\* jvmArgs.insert(jvmArgs.begin(), {CertAgent, agentArg})
InsertAgent(args, cert, agent) == <<cert, agent>> \o args

authlibPath == gameDir \o <<"libraries/authlib-injector.jar">>
agentArg == <<"-javaagent:">> \o authlibPath \o <<"=">> \o api_url

\* The offline token "0" is taken for a session token.
AuthlibApplies_ZeroToken(token, jarExists) == token # <<>> /\ jarExists

\* The condition of addAuthlibInjector.
AuthlibApplies(token, jarExists) == token # <<"0">> /\ token # <<>> /\ jarExists

\* The legacy lists.
LegacyJvmArgs(ph) ==
    << <<"-Djava.library.path=">> \o gameDir \o <<"natives">>,
       <<"-cp">>,
       ph[<<"classpath">>] >>

\* --username is emitted ahead of --uuid.
LegacyGameArgs_UsernameFirst(m, token) ==
    << <<"--version">>, version,
       <<"--gameDir">>, gameDir,
       <<"--assetsDir">>, gameDir \o <<"assets">>,
       <<"--assetIndex">>, getAssetIndexId(m),
       <<"--username">>, username,
       <<"--uuid">>, uuid,
       <<"--accessToken">>, token,
       <<"--userType">>, userType >>

LegacyGameArgs(m, token) ==
    << <<"--version">>, version,
       <<"--gameDir">>, gameDir,
       <<"--assetsDir">>, gameDir \o <<"assets">>,
       <<"--assetIndex">>, getAssetIndexId(m),
       <<"--uuid">>, uuid,
       <<"--username">>, username,
       <<"--accessToken">>, token,
       <<"--userType">>, userType >>

\* The lambda writeArg: the line written for a token.
Range(f) == {f[i] : i \in DOMAIN f}

\* Every token is wrapped, with or without a space.
writeArg_AlwaysQuoted(a) == <<"\"">> \o a \o <<"\"">>

writeArg(a) == IF " " \in Range(a) THEN <<"\"">> \o a \o <<"\"">> ELSE a

RECURSIVE WriteEach(_)
WriteEach(args) ==
    IF args = <<>> THEN <<>> ELSE << writeArg(Head(args)) >> \o WriteEach(Tail(args))

\* The main class is written ahead of the JVM arguments.
LaunchLines_MainFirst(ram, jvm, main, game) ==
    (IF ram # <<>> THEN << writeArg(<<"-Xmx">> \o ram) >> ELSE <<>>)
      \o << writeArg(main) >> \o WriteEach(jvm) \o WriteEach(game)

\* The lines writeLaunchArgs writes once the file is open.
LaunchLines(ram, jvm, main, game) ==
    (IF ram # <<>> THEN << writeArg(<<"-Xmx">> \o ram) >> ELSE <<>>)
      \o WriteEach(jvm) \o << writeArg(main) >> \o WriteEach(game)

NoCommand == [exec |-> "none", argFile |-> <<>>, detached |-> FALSE]

LaunchIdle ==
    /\ pc = "idle"
    /\ j = NoJson
    /\ accessToken = <<>>
    /\ max_ram = <<>>
    /\ authlibJar = FALSE
    /\ mainClass = <<>>
    /\ cp = <<>>
    /\ placeholders = <<>>
    /\ jvmArgs = <<>>
    /\ gameArgs = <<>>
    /\ arg = NoArg
    /\ argCount = 0
    /\ launchFile = <<>>
    /\ command = NoCommand
    /\ launchLog = <<>>

\* The call of launchMinecraft: its parameters, and the files it will meet
\* (launch_args.txt as an earlier run left it).
LaunchInit ==
    /\ pc = "loadVersionJson"
    /\ j = NoJson
    /\ accessToken \in AccessTokens
    /\ max_ram \in MaxRams
    /\ authlibJar \in BOOLEAN
    /\ mainClass = <<>>
    /\ cp = <<>>
    /\ placeholders = <<>>
    /\ jvmArgs = <<>>
    /\ gameArgs = <<>>
    /\ arg = NoArg
    /\ argCount = 0
    /\ launchFile = << <<"stale-line">> >>
    /\ command = NoCommand
    /\ launchLog = <<"Starting Minecraft launch process.", "javaw path">>

\* loadVersionJson fails (file missing, not opened, parse error): return.
LoadVersionJsonFails ==
    /\ pc = "loadVersionJson"
    /\ \E why \in {"Version JSON not found", "Failed to open version JSON",
                   "JSON parse error"} :
         /\ why = "Version JSON not found" => ~versionFile.present
         /\ why = "Failed to open version JSON" => versionFile.present
         /\ why = "JSON parse error" =>
                versionFile.present /\ ~versionFile.parses
         /\ launchLog' = Append(launchLog, why)
    /\ pc' = "returned"
    /\ UNCHANGED <<j, accessToken, max_ram, authlibJar, mainClass, cp,
                   placeholders, jvmArgs, gameArgs, arg, argCount, launchFile,
                   command>>

\* loadVersionJson succeeds; the main class with its fallback.
LoadVersionJson ==
    /\ pc = "loadVersionJson"
    /\ versionFile.present /\ versionFile.parses
    /\ j' = versionFile.json
    /\ mainClass' = IF j'.mainClass # <<>> THEN j'.mainClass ELSE DefaultMainClass
    /\ launchLog' = Append(launchLog, "Main class")
    /\ pc' = "loadClasspath"
    /\ UNCHANGED <<accessToken, max_ram, authlibJar, cp, placeholders, jvmArgs,
                   gameArgs, arg, argCount, launchFile, command>>

\* loadClasspath: the whole text of classpath.txt, when it is there.
loadClasspath(file) == [ok |-> file.present, cp |-> file.text]

\* loadClasspath fails (the file is missing or cannot be opened): return.
LoadClasspathFails ==
    /\ pc = "loadClasspath"
    /\ launchLog' = Append(launchLog, "Failed to load classpath")
    /\ pc' = "returned"
    /\ UNCHANGED <<j, accessToken, max_ram, authlibJar, mainClass, cp,
                   placeholders, jvmArgs, gameArgs, arg, argCount, launchFile,
                   command>>

\* loadClasspath succeeds; getAssetIndexId; createPlaceholderMap.
LoadClasspath ==
    /\ pc = "loadClasspath"
    /\ loadClasspath(classpathFile).ok
    /\ cp' = loadClasspath(classpathFile).cp
    /\ placeholders' = createPlaceholderMap(username, version, gameDir,
                           getAssetIndexId(j), uuid, accessToken, userType, cp')
    /\ launchLog' = Append(launchLog, "Asset index ID")
    /\ pc' = "processJvmArguments"
    /\ UNCHANGED <<j, accessToken, max_ram, authlibJar, mainClass, jvmArgs,
                   gameArgs, arg, argCount, launchFile, command>>

\* processJvmArguments up to the call of addAuthlibInjector: the legacy list,
\* or the entry into processModernJvmArgs.
ProcessJvmArguments ==
    /\ pc = "processJvmArguments"
    /\ IF j.arguments /\ j.jvm
       THEN /\ jvmArgs' = <<>>
            /\ pc' = "processModernJvmArgs"
       ELSE /\ jvmArgs' = LegacyJvmArgs(placeholders)
            /\ pc' = "addAuthlibInjector"
    /\ argCount' = 0
    /\ UNCHANGED <<j, accessToken, max_ram, authlibJar, mainClass, cp,
                   placeholders, gameArgs, arg, launchFile, command, launchLog>>

\* One pass of the range-for of processModernJvmArgs, on the next element of
\* arguments.jvm.
ProcessModernJvmArgsStep ==
    /\ pc = "processModernJvmArgs"
    /\ argCount < MaxTokens
    /\ \E a \in ArgTokens :
         /\ arg' = a
         /\ jvmArgs' = jvmArgs \o processModernJvmArgsBody(a, placeholders)
    /\ argCount' = argCount + 1
    /\ UNCHANGED <<pc, j, accessToken, max_ram, authlibJar, mainClass, cp,
                   placeholders, gameArgs, launchFile, command, launchLog>>

\* arguments.jvm has no further element.
ProcessModernJvmArgsEnd ==
    /\ pc = "processModernJvmArgs"
    /\ arg' = NoArg
    /\ argCount' = 0
    /\ pc' = "addAuthlibInjector"
    /\ UNCHANGED <<j, accessToken, max_ram, authlibJar, mainClass, cp,
                   placeholders, jvmArgs, gameArgs, launchFile, command,
                   launchLog>>

\* addAuthlibInjector, and the return of processJvmArguments.
AddAuthlibInjector ==
    /\ pc = "addAuthlibInjector"
    /\ IF AuthlibApplies(accessToken, authlibJar)
       THEN /\ jvmArgs' = InsertAgent(jvmArgs, CertAgent, agentArg)
            /\ launchLog' = Append(launchLog, "Added authlib-injector")
       ELSE /\ jvmArgs' = jvmArgs
            /\ launchLog' = Append(launchLog, "Skipping authlib-injector")
    /\ pc' = "processGameArguments"
    /\ UNCHANGED <<j, accessToken, max_ram, authlibJar, mainClass, cp,
                   placeholders, gameArgs, arg, argCount, launchFile, command>>

\* processGameArguments: the legacy list, or the entry into
\* processModernGameArgs.
ProcessGameArguments ==
    /\ pc = "processGameArguments"
    /\ IF j.arguments /\ j.game
       THEN /\ gameArgs' = <<>>
            /\ pc' = "processModernGameArgs"
       ELSE /\ gameArgs' = LegacyGameArgs(j, accessToken)
            /\ pc' = "writeLaunchArgs"
    /\ argCount' = 0
    /\ UNCHANGED <<j, accessToken, max_ram, authlibJar, mainClass, cp,
                   placeholders, jvmArgs, arg, launchFile, command, launchLog>>

\* One pass of the range-for of processModernGameArgs.
ProcessModernGameArgsStep ==
    /\ pc = "processModernGameArgs"
    /\ argCount < MaxTokens
    /\ \E a \in ArgTokens :
         /\ arg' = a
         /\ gameArgs' = gameArgs \o processModernGameArgsBody(a, placeholders)
    /\ argCount' = argCount + 1
    /\ UNCHANGED <<pc, j, accessToken, max_ram, authlibJar, mainClass, cp,
                   placeholders, jvmArgs, launchFile, command, launchLog>>

\* arguments.game has no further element.
ProcessModernGameArgsEnd ==
    /\ pc = "processModernGameArgs"
    /\ arg' = NoArg
    /\ argCount' = 0
    /\ pc' = "writeLaunchArgs"
    /\ UNCHANGED <<j, accessToken, max_ram, authlibJar, mainClass, cp,
                   placeholders, jvmArgs, gameArgs, launchFile, command,
                   launchLog>>

\* writeLaunchArgs cannot open launch_args.txt: it returns false, the launch
\* logs and returns.
WriteLaunchArgsFails ==
    /\ pc = "writeLaunchArgs"
    /\ launchLog' = Append(launchLog, "Failed to write launch arguments")
    /\ pc' = "returned"
    /\ UNCHANGED <<j, accessToken, max_ram, authlibJar, mainClass, cp,
                   placeholders, jvmArgs, gameArgs, arg, argCount, launchFile,
                   command>>

\* writeLaunchArgs opens the file (which truncates it) and writes.
WriteLaunchArgs ==
    /\ pc = "writeLaunchArgs"
    /\ launchFile' = LaunchLines(max_ram, jvmArgs, mainClass, gameArgs)
    /\ pc' = "executeLaunchCommand"
    /\ UNCHANGED <<j, accessToken, max_ram, authlibJar, mainClass, cp,
                   placeholders, jvmArgs, gameArgs, arg, argCount, command,
                   launchLog>>

\* executeLaunchCommand: java in the foreground when debug, else javaw
\* detached by start.
ExecuteLaunchCommand ==
    /\ pc = "executeLaunchCommand"
    /\ \E debug \in BOOLEAN :
         command' = [exec |-> IF debug THEN "java" ELSE "javaw",
                     argFile |-> gameDir \o <<"launch_args.txt">>,
                     detached |-> ~debug]
    /\ pc' = "returned"
    /\ UNCHANGED <<j, accessToken, max_ram, authlibJar, mainClass, cp,
                   placeholders, jvmArgs, gameArgs, arg, argCount, launchFile,
                   launchLog>>

LaunchNext ==
    \/ LoadVersionJsonFails /\ UNCHANGED notLaunchVars
    \/ LoadVersionJson /\ UNCHANGED notLaunchVars
    \/ LoadClasspathFails /\ UNCHANGED notLaunchVars
    \/ LoadClasspath /\ UNCHANGED notLaunchVars
    \/ ProcessJvmArguments /\ UNCHANGED notLaunchVars
    \/ ProcessModernJvmArgsStep /\ UNCHANGED notLaunchVars
    \/ ProcessModernJvmArgsEnd /\ UNCHANGED notLaunchVars
    \/ AddAuthlibInjector /\ UNCHANGED notLaunchVars
    \/ ProcessGameArguments /\ UNCHANGED notLaunchVars
    \/ ProcessModernGameArgsStep /\ UNCHANGED notLaunchVars
    \/ ProcessModernGameArgsEnd /\ UNCHANGED notLaunchVars
    \/ WriteLaunchArgsFails /\ UNCHANGED notLaunchVars
    \/ WriteLaunchArgs /\ UNCHANGED notLaunchVars
    \/ ExecuteLaunchCommand /\ UNCHANGED notLaunchVars

---------------------------------------------------------------------------
(* buildClasspathFromJson                                                  *)

\* replaceAll: every occurrence of from, left to right, the text put in not
\* searched again.
RECURSIVE ReplaceAllLoop(_, _, _, _)
ReplaceAllLoop(str, from, to, start_pos) ==
    LET p == Find(str, from, start_pos)
    IN IF p = npos THEN str
       ELSE ReplaceAllLoop(StrReplace(str, p, Len(from), to), from, to,
                           p + Len(to))

replaceAll(str, from, to) ==
    IF from = <<>> THEN str ELSE ReplaceAllLoop(str, from, to, 0)

\* A library of the manifest.  name: the "name" member when it is a string;
\* rules: the "rules" member; downloads: whether "downloads" is there;
\* artifact: downloads.artifact, with its "path" when that is a string;
\* downloadOnly: "absent" | "true" | "false"; natives: "absent" (no
\* natives.windows), "listed" (natives.windows names a classifier that
\* downloads.classifiers holds) or "unlisted" (it does not hold it).
NoName == [present |-> FALSE, str |-> <<>>]
Name(n) == [present |-> TRUE, str |-> n]
NoArtifact == [present |-> FALSE, hasPath |-> FALSE, path |-> <<>>]
ArtifactNoPath == [present |-> TRUE, hasPath |-> FALSE, path |-> <<>>]
Artifact(path) == [present |-> TRUE, hasPath |-> TRUE, path |-> path]

Lib(n, r, d, a, o, nat) ==
    [name |-> n, rules |-> r, downloads |-> d, artifact |-> a,
     downloadOnly |-> o, natives |-> nat]

\* The path the second half of getLibraryPath builds from the coordinate.
PathFromName(name) ==
    LET colon1 == Find(name, <<":">>, 0)
        colon2 == Find(name, <<":">>, colon1 + 1)
        colon3 == Find(name, <<":">>, colon2 + 1)
    IN IF colon1 = npos \/ colon2 = npos THEN <<>>
       ELSE LET group == Substr(name, 0, colon1)
                artifact == Substr(name, colon1 + 1, colon2 - colon1 - 1)
                ver == Substr(name, colon2 + 1,
                              IF colon3 # npos THEN colon3 - colon2 - 1
                              ELSE Len(name) - colon2 - 1)
                classifier == IF colon3 # npos
                              THEN Substr(name, colon3 + 1, Len(name) - colon3 - 1)
                              ELSE <<>>
            IN replaceAll(group, <<".">>, <<"/">>) \o <<"/">> \o artifact
                 \o <<"/">> \o ver \o <<"/">> \o artifact \o <<"-">> \o ver
                 \o (IF classifier = <<>> THEN <<>> ELSE <<"-">> \o classifier)
                 \o <<".", "jar">>

\* getLibraryPath, called on a library that has downloads.artifact.
getLibraryPath(l) ==
    IF l.artifact.hasPath THEN l.artifact.path
    ELSE IF ~l.name.present THEN <<>>
    ELSE PathFromName(l.name.str)

libDir == gameDir \o <<"libraries/">>
clientPath == gameDir \o <<"versions/">> \o version \o <<"/">> \o version \o <<".", "jar">>

\* lib.contains("downloads") && lib["downloads"].contains("artifact")
HasArtifact(l) == l.downloads /\ l.artifact.present

\* A library whose file is missing is entered all the same.
LibraryEntries_MissingKept(l, files) ==
    IF ~isLibraryCompatible(l.rules) THEN <<>>
    ELSE IF HasArtifact(l) /\ l.downloadOnly # "true" /\ getLibraryPath(l) # <<>>
         THEN << libDir \o getLibraryPath(l) >>
         ELSE <<>>

\* What processLibrary appends to classpathEntries.
LibraryEntries(l, files) ==
    IF ~isLibraryCompatible(l.rules) THEN <<>>
    ELSE IF HasArtifact(l) /\ l.downloadOnly # "true" /\ getLibraryPath(l) # <<>>
              /\ getLibraryPath(l) \in files
         THEN << libDir \o getLibraryPath(l) >>
         ELSE <<>>

\* What processLibrary writes to std::cerr about the artifact.
LibraryMessages(l, files) ==
    IF isLibraryCompatible(l.rules) /\ HasArtifact(l) /\ l.downloadOnly # "true"
         /\ getLibraryPath(l) # <<>> /\ getLibraryPath(l) \notin files
    THEN <<"Missing library">> ELSE <<>>

\* The natives directory is not looked at.
NativesTriggered_IgnoresDir(l, dir) ==
    /\ isLibraryCompatible(l.rules)
    /\ l.natives = "listed"

\* Whether processNatives reaches the download for this library.
NativesTriggered(l, dir) ==
    /\ isLibraryCompatible(l.rules)
    /\ l.natives = "listed"
    /\ dir = "empty"

\* A separator is put after every entry, the last one included.
RECURSIVE JoinClasspath_TrailingSeparator(_)
JoinClasspath_TrailingSeparator(entries) ==
    IF entries = <<>> THEN <<>>
    ELSE Head(entries) \o <<";">> \o JoinClasspath_TrailingSeparator(Tail(entries))

\* std::string cp: the entries joined by ";".
RECURSIVE JoinClasspath(_)
JoinClasspath(entries) ==
    IF entries = <<>> THEN <<>>
    ELSE IF Len(entries) = 1 THEN entries[1]
    ELSE JoinClasspath(SubSeq(entries, 1, Len(entries) - 1))
           \o <<";">> \o entries[Len(entries)]

\* The libraries the manifests of SpecBuild are made of: given by name only
\* or with downloads.artifact, with an explicit path or a coordinate to
\* derive it from, gated by an OS rule, download-only, carrying natives.
PathXY == <<"x", "/", "y", ".", "jar">>
PathSemicolon == <<"a", ";", "b", ".", "jar">>
NameGXA == <<"g", ".", "x", ":", "a", ":", "1", ".", "0">>
NameClassified == NameGXA \o <<":", "natives-windows">>
NameOneColon == <<"g", ":", "a">>

AllowWindows == RulesOf(<< Rule("allow", "windows", FALSE) >>)
AllowLinux == RulesOf(<< Rule("allow", "linux", FALSE) >>)

NameOnlyLib == Lib(Name(NameGXA), AllowWindows, FALSE, NoArtifact, "absent", "absent")

LibSpecs ==
    { NameOnlyLib,
      Lib(Name(NameGXA), AllowLinux, TRUE, ArtifactNoPath, "absent", "absent"),
      Lib(Name(NameGXA), NoRules, TRUE, Artifact(PathXY), "absent", "absent"),
      Lib(Name(NameGXA), AllowWindows, TRUE, ArtifactNoPath, "absent", "absent"),
      Lib(Name(NameClassified), NoRules, TRUE, ArtifactNoPath, "false", "listed"),
      Lib(Name(NameOneColon), NoRules, TRUE, ArtifactNoPath, "absent", "unlisted"),
      Lib(NoName, NoRules, TRUE, Artifact(PathSemicolon), "absent", "absent"),
      Lib(Name(NameGXA), NoRules, TRUE, Artifact(PathXY), "true", "absent"),
      Lib(Name(NameGXA), NoRules, TRUE, NoArtifact, "absent", "listed") }

LibLists == UNION {[1 .. n -> LibSpecs] : n \in 0 .. MaxLibs}

BuildJsons ==
    {[NoJson EXCEPT !.libraries = x] :
        x \in {NoLibraries} \cup {Libraries(l) : l \in LibLists}}

BuildVersionFiles ==
    {NoVersionFile, BadVersionFile} \cup {VersionFile(m) : m \in BuildJsons}

\* The files under <gameDir>libraries/, by their path below it.
AllLibPaths ==
    {PathXY, PathSemicolon, PathFromName(NameGXA), PathFromName(NameClassified)}

LibDisks == {AllLibPaths, AllLibPaths \ {PathXY}, {}}

BuildIdle ==
    /\ buildPc = "idle"
    /\ buildJ = NoJson
    /\ libIdx = 1
    /\ classpathEntries = <<>>
    /\ buildResult = "none"
    /\ buildOut = <<>>
    /\ clientJar = FALSE
    /\ libFiles = {}
    /\ nativesDir = "empty"
    /\ tempJar = FALSE

\* The call of buildClasspathFromJson, and the game directory it meets.
BuildInit ==
    /\ buildPc = "readJson"
    /\ buildJ = NoJson
    /\ libIdx = 1
    /\ classpathEntries = <<>>
    /\ buildResult = "none"
    /\ buildOut = <<>>
    /\ clientJar \in BOOLEAN
    /\ libFiles \in LibDisks
    /\ nativesDir \in {"empty", "populated"}
    /\ tempJar \in BOOLEAN

\* The version JSON is missing, cannot be opened or does not parse: return
\* false.
BuildReadJsonFails ==
    /\ buildPc = "readJson"
    /\ \E why \in {"Version JSON not found", "Failed to open",
                   "JSON parse error"} :
         /\ why = "Version JSON not found" => ~versionFile.present
         /\ why = "Failed to open" => versionFile.present
         /\ why = "JSON parse error" =>
                versionFile.present /\ ~versionFile.parses
         /\ buildOut' = Append(buildOut, why)
    /\ buildResult' = "false"
    /\ buildPc' = "returned"
    /\ UNCHANGED <<buildJ, libIdx, classpathEntries, clientJar, libFiles,
                   nativesDir, tempJar, classpathFile>>

\* ifs >> j; classpathEntries is empty.
BuildReadJson ==
    /\ buildPc = "readJson"
    /\ versionFile.present /\ versionFile.parses
    /\ buildJ' = versionFile.json
    /\ classpathEntries' = <<>>
    /\ libIdx' = 1
    /\ buildPc' = "libraries"
    /\ UNCHANGED <<buildResult, buildOut, clientJar, libFiles, nativesDir,
                   tempJar, classpathFile>>

MoreLibraries ==
    buildJ.libraries.isArray /\ libIdx <= Len(buildJ.libraries.list)

\* One pass of the range-for over j["libraries"]: processLibrary, with
\* processNatives when the library is compatible.  A download that fails
\* leaves temp_natives.jar removed or as it was; an extraction that fails
\* leaves the jar, and natives/ as it was or partly filled.
ProcessLibraryStep ==
    /\ buildPc = "libraries"
    /\ MoreLibraries
    /\ LET l == buildJ.libraries.list[libIdx]
       IN /\ classpathEntries' = classpathEntries \o LibraryEntries(l, libFiles)
          /\ IF NativesTriggered(l, nativesDir)
             THEN \E downloaded \in BOOLEAN, extracted \in BOOLEAN,
                     partial \in BOOLEAN :
                    IF ~downloaded
                    THEN /\ ~extracted
                         /\ tempJar' = (tempJar /\ partial)
                         /\ nativesDir' = nativesDir
                         /\ buildOut' = buildOut \o LibraryMessages(l, libFiles)
                              \o <<"Downloading natives", "Download failed">>
                    ELSE IF ~extracted
                    THEN /\ tempJar' = TRUE
                         /\ nativesDir' = IF partial THEN "populated" ELSE nativesDir
                         /\ buildOut' = buildOut \o LibraryMessages(l, libFiles)
                              \o <<"Downloading natives", "Extracting natives...",
                                   "Extraction failed">>
                    ELSE /\ ~partial
                         /\ tempJar' = FALSE
                         /\ nativesDir' = "populated"
                         /\ buildOut' = buildOut \o LibraryMessages(l, libFiles)
                              \o <<"Downloading natives", "Extracting natives...",
                                   "Extraction completed successfully.">>
             ELSE /\ buildOut' = buildOut \o LibraryMessages(l, libFiles)
                  /\ UNCHANGED <<nativesDir, tempJar>>
    /\ libIdx' = libIdx + 1
    /\ UNCHANGED <<buildPc, buildJ, buildResult, clientJar, libFiles,
                   classpathFile>>

\* The client JAR is missing: return false.
BuildClientJarMissing ==
    /\ buildPc = "libraries"
    /\ ~MoreLibraries
    /\ ~clientJar
    /\ buildOut' = Append(buildOut, "Missing client JAR")
    /\ buildResult' = "false"
    /\ buildPc' = "returned"
    /\ UNCHANGED <<buildJ, libIdx, classpathEntries, clientJar, libFiles,
                   nativesDir, tempJar, classpathFile>>

\* classpathEntries.push_back(clientPath)
BuildClientJar ==
    /\ buildPc = "libraries"
    /\ ~MoreLibraries
    /\ clientJar
    /\ classpathEntries' = Append(classpathEntries, clientPath)
    /\ buildPc' = "writeClasspath"
    /\ UNCHANGED <<buildJ, libIdx, buildResult, buildOut, clientJar, libFiles,
                   nativesDir, tempJar, classpathFile>>

\* classpath.txt cannot be opened for writing: return false.
BuildWriteFails ==
    /\ buildPc = "writeClasspath"
    /\ buildOut' = Append(buildOut, "Failed to create classpath.txt")
    /\ buildResult' = "false"
    /\ buildPc' = "returned"
    /\ UNCHANGED <<buildJ, libIdx, classpathEntries, clientJar, libFiles,
                   nativesDir, tempJar, classpathFile>>

\* cpFile << cp; return true.
BuildWrite ==
    /\ buildPc = "writeClasspath"
    /\ classpathFile' = TextFile(JoinClasspath(classpathEntries))
    /\ buildResult' = "true"
    /\ buildPc' = "returned"
    /\ UNCHANGED <<buildJ, libIdx, classpathEntries, buildOut, clientJar,
                   libFiles, nativesDir, tempJar>>

BuildNext ==
    \/ BuildReadJsonFails /\ UNCHANGED notBuildVars
    \/ BuildReadJson /\ UNCHANGED notBuildVars
    \/ ProcessLibraryStep /\ UNCHANGED notBuildVars
    \/ BuildClientJarMissing /\ UNCHANGED notBuildVars
    \/ BuildClientJar /\ UNCHANGED notBuildVars
    \/ BuildWriteFails /\ UNCHANGED notBuildVars
    \/ BuildWrite /\ UNCHANGED notBuildVars

---------------------------------------------------------------------------
(* main and updatePack                                                     *)

\* config.json as loadConfig reads it: whether both pack URLs are non-empty,
\* and pack_version ("0.0.0" when the file or the member is missing).
ConfigFile(u, v) == [hasUrls |-> u, pack_version |-> v]

ConfigFiles ==
    { ConfigFile(FALSE, <<"0.0.0">>), ConfigFile(TRUE, <<"0.0.0">>),
      ConfigFile(TRUE, <<"1.0.0">>) }

\* The stored version is not read: every run starts from the default.
loadedPackVersion_Default(file) == <<"0.0.0">>

\* loadConfig: pack_version
loadedPackVersion(file) == file.pack_version

\* saveConfig: empty URLs are written as the default URLs, pack_version as
\* it is.
saveConfig_KeepsEmptyUrls(file, v) == ConfigFile(file.hasUrls, v)

saveConfig(file, v) == ConfigFile(TRUE, v)

\* The document at pack_manifest_url: not JSON, or a JSON object whose
\* "version" is missing, a number, or a string.
Unparseable == [kind |-> "unparseable", version |-> <<>>]
NoVersionField == [kind |-> "noVersion", version |-> <<>>]
NumberVersion == [kind |-> "numberVersion", version |-> <<>>]
StringVersion(v) == [kind |-> "stringVersion", version |-> v]

RemoteManifests ==
    { Unparseable, NoVersionField, NumberVersion,
      StringVersion(<<"1.0.0">>), StringVersion(<<"1.1.0">>) }

\* manifest_ifs >> manifest_j; manifest_j.value("version", "0.0.0"): the
\* default when the key is missing, the string when it holds one, and a
\* json::exception (type_error) when it holds anything else.
parseRemoteVersion(m) ==
    CASE m.kind = "stringVersion" -> [ok |-> TRUE, version |-> m.version]
      [] m.kind = "noVersion" -> [ok |-> TRUE, version |-> <<"0.0.0">>]
      [] OTHER -> [ok |-> FALSE, version |-> <<>>]

\* The comparison is the wrong way round.
IsUpToDate_Differs(remote, local) == remote # local

\* remote_version == pack_version
IsUpToDate(remote, local) == remote = local

\* The pack items: four folders and a file.  An item holds content of the
\* old pack, of the new archive, both, or nothing (missing or empty).
foldersToDelete == {"config", "fancymenu_data", "mods", "shaderpacks"}
PackItems == foldersToDelete \cup {"servers.dat"}

OldTree == [i \in PackItems |-> {"old"}]
EmptyTree == [i \in PackItems |-> {}]
InitialTrees == {OldTree, EmptyTree}

Archives == {PackItems, {"mods"}}

\* The items whose deletion fails (held open by another process).
LockedSets == {{}, {"mods"}, {"config", "servers.dat"}}

\* The order in which cleanupDirectoriesForUpdate removes the items.
DeleteOrder == <<"servers.dat", "config", "fancymenu_data", "mods", "shaderpacks">>

\* The first failed removal ends the cleanup: the items after it are kept.
CleanedTree_StopsAtFailure(t, locked) ==
    [i \in PackItems |->
        IF \E a, b \in DOMAIN DeleteOrder :
              a <= b /\ DeleteOrder[a] \in locked /\ DeleteOrder[b] = i
        THEN t[i] ELSE {}]

\* mods/ is left out of the cleanup.
CleanedTree_KeepsMods(t, locked) ==
    [i \in PackItems |-> IF i \in locked \/ i = "mods" THEN t[i] ELSE {}]

\* cleanupDirectoriesForUpdate: every item that exists is removed, unless
\* its removal throws (which is logged, and the next item is tried).
CleanedTree(t, locked) ==
    [i \in PackItems |-> IF i \in locked THEN t[i] ELSE {}]

\* extractArchive over the game directory: a folder of the archive gains
\* the new content, the file is replaced.
ExtractedTree(t, a) ==
    [i \in PackItems |->
        IF i \notin a THEN t[i]
        ELSE IF i \in foldersToDelete THEN t[i] \cup {"new"}
        ELSE {"new"}]

\* pack.zip is left behind when the extraction fails.
ZipAfterFailedExtract_Kept == TRUE

\* fs::remove(pack_path) on the extraction failure.
ZipAfterFailedExtract == FALSE

NoRun ==
    [end |-> "none", stripped |-> FALSE, unsaved |-> FALSE,
     skipped |-> FALSE, urlsSaved |-> FALSE]

\* Whether this run has deleted pack content and not extracted the archive.
Stripped == "cleaned" \in Range(packSteps) /\ "extracted" \notin Range(packSteps)

\* Whether pack content was deleted, in this run or an earlier one, and no
\* extraction has completed since.
NeedsRecovery ==
    Stripped \/ (prevRun.stripped /\ "extracted" \notin Range(packSteps))

PackIdle ==
    /\ configFile = ConfigFile(FALSE, <<"0.0.0">>)
    /\ hasUrls = FALSE
    /\ pack_version = <<>>
    /\ remoteManifest = Unparseable
    /\ archive = {}
    /\ remote_version = <<>>
    /\ tempManifest = FALSE
    /\ packZip = FALSE
    /\ tree = EmptyTree
    /\ packPc = "idle"
    /\ packResult = "none"
    /\ packSteps = <<>>
    /\ deleteFailed = {}

MainIdle ==
    /\ mainPc = "idle"
    /\ runs = 0
    /\ prevRun = NoRun

\* The start of main, and what the run meets: config.json, the game
\* directory, and what the pack server serves.
MainInit ==
    /\ mainPc = "loadConfig"
    /\ runs = 1
    /\ prevRun = NoRun
    /\ configFile \in ConfigFiles
    /\ hasUrls = FALSE
    /\ pack_version = <<>>
    /\ remoteManifest \in RemoteManifests
    /\ archive \in Archives
    /\ remote_version = <<>>
    /\ tempManifest = FALSE
    /\ packZip = FALSE
    /\ tree \in InitialTrees
    /\ packPc = "idle"
    /\ packResult = "none"
    /\ packSteps = <<>>
    /\ deleteFailed = {}

launchRest == <<pc, j, accessToken, max_ram, mainClass, cp, placeholders,
                jvmArgs, gameArgs, arg, argCount, launchFile, command,
                launchLog>>
packDisk == <<configFile, remoteManifest, archive>>
packLocals == <<hasUrls, pack_version, remote_version, deleteFailed>>

\* updatePack returns r after step s.
PackReturns(r, s) ==
    /\ packPc' = "returned"
    /\ packResult' = r
    /\ packSteps' = Append(packSteps, s)

\* updatePack goes on to statement p after step s.
PackGoes(p, s) ==
    /\ packPc' = p
    /\ packResult' = packResult
    /\ packSteps' = Append(packSteps, s)

\* main: loadConfig.
MainLoadConfig ==
    /\ mainPc = "loadConfig"
    /\ pack_version' = loadedPackVersion(configFile)
    /\ hasUrls' = configFile.hasUrls
    /\ mainPc' = "prepare"
    /\ UNCHANGED <<packDisk, remote_version, deleteFailed, tempManifest,
                   packZip, tree, packPc, packResult, packSteps, runs,
                   prevRun, authlibJar>>

\* main, from the token prompt to the config directory.  A token that was
\* typed in is saved with the configuration as loaded (the save can fail).
TokenSaves == {configFile, saveConfig(configFile, pack_version)}

\* No token typed, or the game directory, Java or the authentication fails:
\* return 1.
MainPrepareFails ==
    /\ mainPc = "prepare"
    /\ configFile' \in TokenSaves
    /\ mainPc' = "exit1"
    /\ UNCHANGED <<remoteManifest, archive, packLocals, tempManifest, packZip,
                   tree, packPc, packResult, packSteps, runs, prevRun,
                   authlibJar>>

\* The preparation succeeds: main calls updatePack.
MainPrepare ==
    /\ mainPc = "prepare"
    /\ configFile' \in TokenSaves
    /\ mainPc' = "updatePack"
    /\ packPc' = "start"
    /\ UNCHANGED <<remoteManifest, archive, packLocals, tempManifest, packZip,
                   tree, packResult, packSteps, runs, prevRun, authlibJar>>

\* updatePack: no pack URL or no manifest URL.
UpdatePackSkip ==
    /\ packPc = "start"
    /\ ~hasUrls
    /\ PackReturns("true", "skipped")
    /\ UNCHANGED <<packDisk, packLocals, tempManifest, packZip, tree,
                   mainVars, authlibJar>>

\* The manifest download fails; downloadFile removes what it had written.
FetchManifestFails ==
    /\ packPc = "start"
    /\ hasUrls
    /\ tempManifest' = FALSE
    /\ PackReturns("false", "fetchFailed")
    /\ UNCHANGED <<packDisk, packLocals, packZip, tree, mainVars, authlibJar>>

FetchManifest ==
    /\ packPc = "start"
    /\ hasUrls
    /\ tempManifest' = TRUE
    /\ PackGoes("parse", "fetched")
    /\ UNCHANGED <<packDisk, packLocals, packZip, tree, mainVars, authlibJar>>

\* The downloaded manifest cannot be opened.
OpenManifestFails ==
    /\ packPc = "parse"
    /\ tempManifest' = FALSE
    /\ PackReturns("false", "openFailed")
    /\ UNCHANGED <<packDisk, packLocals, packZip, tree, mainVars, authlibJar>>

\* The manifest that does not parse is left in the game directory.
ManifestAfterParseError_Kept == TRUE

\* fs::remove(temp_manifest_path) in the handler of json::exception.
ManifestAfterParseError == FALSE

\* catch (const json::exception&)
ParseManifestFails ==
    /\ packPc = "parse"
    /\ ~parseRemoteVersion(remoteManifest).ok
    /\ tempManifest' = ManifestAfterParseError
    /\ PackReturns("false", "parseError")
    /\ UNCHANGED <<packDisk, packLocals, packZip, tree, mainVars, authlibJar>>

ParseManifest ==
    /\ packPc = "parse"
    /\ parseRemoteVersion(remoteManifest).ok
    /\ remote_version' = parseRemoteVersion(remoteManifest).version
    /\ PackGoes("compare", "parsed")
    /\ UNCHANGED <<packDisk, hasUrls, pack_version, deleteFailed,
                   tempManifest, packZip, tree, mainVars, authlibJar>>

UpToDate ==
    /\ packPc = "compare"
    /\ IsUpToDate(remote_version, pack_version)
    /\ tempManifest' = FALSE
    /\ PackReturns("true", "upToDate")
    /\ UNCHANGED <<packDisk, packLocals, packZip, tree, mainVars, authlibJar>>

\* The pack is stale: cleanupDirectoriesForUpdate, which always returns
\* true.
Cleanup ==
    /\ packPc = "compare"
    /\ ~IsUpToDate(remote_version, pack_version)
    /\ \E locked \in LockedSets :
          /\ tree' = CleanedTree(tree, locked)
          /\ deleteFailed' = {i \in locked : tree[i] # {}}
    /\ PackGoes("download", "cleaned")
    /\ UNCHANGED <<packDisk, hasUrls, pack_version, remote_version,
                   tempManifest, packZip, mainVars, authlibJar>>

\* downloadAndExtractPack: the archive download fails.
DownloadPackFails ==
    /\ packPc = "download"
    /\ packZip' = FALSE
    /\ tempManifest' = FALSE
    /\ PackReturns("false", "downloadFailed")
    /\ UNCHANGED <<packDisk, packLocals, tree, mainVars, authlibJar>>

DownloadPack ==
    /\ packPc = "download"
    /\ packZip' = TRUE
    /\ PackGoes("extract", "downloaded")
    /\ UNCHANGED <<packDisk, packLocals, tempManifest, tree, mainVars,
                   authlibJar>>

\* What a broken-off extraction has unpacked: nothing, or mods/ only.
PartlyExtracted == {tree, ExtractedTree(tree, archive \cap {"mods"})}

\* The extraction fails.
ExtractPackFails ==
    /\ packPc = "extract"
    /\ tree' \in PartlyExtracted
    /\ packZip' = ZipAfterFailedExtract
    /\ tempManifest' = FALSE
    /\ PackReturns("false", "extractFailed")
    /\ UNCHANGED <<packDisk, packLocals, mainVars, authlibJar>>

\* The extraction succeeds: the archive is removed, the version updated.
ExtractPack ==
    /\ packPc = "extract"
    /\ tree' = ExtractedTree(tree, archive)
    /\ packZip' = FALSE
    /\ pack_version' = remote_version
    /\ tempManifest' = FALSE
    /\ PackReturns("true", "extracted")
    /\ UNCHANGED <<packDisk, hasUrls, remote_version, deleteFailed, mainVars,
                   authlibJar>>

\* main: updatePack returned false.
MainUpdatePackFailed ==
    /\ mainPc = "updatePack"
    /\ packPc = "returned"
    /\ packResult = "false"
    /\ mainPc' = "exit1"
    /\ UNCHANGED <<packVars, runs, prevRun, authlibJar>>

\* The configuration is saved before authlib-injector.jar is downloaded.
ConfigAfterAuthlibFailure_Saved(file, v) == saveConfig(file, v)

\* main returns 1 from the failed download, before its saveConfig.
ConfigAfterAuthlibFailure(file, v) == file

\* main: authlib-injector.jar is missing and its download fails.
MainAuthlibFails ==
    /\ mainPc = "updatePack"
    /\ packPc = "returned"
    /\ packResult = "true"
    /\ ~authlibJar
    /\ configFile' = ConfigAfterAuthlibFailure(configFile, pack_version)
    /\ mainPc' = "exit1"
    /\ UNCHANGED <<remoteManifest, archive, packLocals, tempManifest, packZip,
                   tree, packPc, packResult, packSteps, runs, prevRun,
                   authlibJar>>

\* main: authlib-injector.jar exists or is downloaded.
MainAuthlib ==
    /\ mainPc = "updatePack"
    /\ packPc = "returned"
    /\ packResult = "true"
    /\ authlibJar' = TRUE
    /\ mainPc' = "saveConfig"
    /\ UNCHANGED <<packVars, runs, prevRun>>

\* main: saveConfig, which reports nothing when the file is not written.
MainSaveConfig ==
    /\ mainPc = "saveConfig"
    /\ configFile' \in {saveConfig(configFile, pack_version), configFile}
    /\ mainPc' = "buildClasspath"
    /\ UNCHANGED <<remoteManifest, archive, packLocals, tempManifest, packZip,
                   tree, packPc, packResult, packSteps, runs, prevRun,
                   authlibJar>>

\* What a removal or extraction that is under way when the process is
\* stopped has done to the pack items.
Interrupted ==
    IF packPc = "compare" /\ ~IsUpToDate(remote_version, pack_version)
    THEN {tree, CleanedTree(tree, {"mods", "shaderpacks"})}
    ELSE IF packPc = "extract" THEN PartlyExtracted
    ELSE {tree}

\* The launcher is stopped from outside before its configuration is saved.
Kill ==
    /\ mainPc \in {"prepare", "updatePack", "saveConfig"}
    /\ tree' \in Interrupted
    /\ mainPc' = "killed"
    /\ UNCHANGED <<packDisk, packLocals, tempManifest, packZip, packPc,
                   packResult, packSteps, runs, prevRun, authlibJar>>

\* The run extracted the new pack and returned 1 from the failed download
\* of authlib-injector.jar.
UnsavedSync == "extracted" \in Range(packSteps) /\ mainPc = "exit1"

RunEnded == mainPc \in {"exit1", "killed", "buildClasspath"}

\* The user starts the launcher again; the files are as the run left them,
\* and the server serves the same manifest and archive.
NextRun ==
    /\ RunEnded
    /\ runs < MaxRuns
    /\ runs' = runs + 1
    /\ prevRun' = [end |-> mainPc, stripped |-> NeedsRecovery,
                   unsaved |-> UnsavedSync,
                   skipped |-> "skipped" \in Range(packSteps),
                   urlsSaved |-> configFile.hasUrls]
    /\ mainPc' = "loadConfig"
    /\ hasUrls' = FALSE
    /\ pack_version' = <<>>
    /\ remote_version' = <<>>
    /\ packPc' = "idle"
    /\ packResult' = "none"
    /\ packSteps' = <<>>
    /\ deleteFailed' = {}
    /\ UNCHANGED <<packDisk, tempManifest, packZip, tree, authlibJar>>

notMainVars == <<substVars, ruleVars, launchRest, diskVars, buildVars, ioVars>>

\* The steps of updatePack, taken while main is in its call.
UpdatePackNext ==
    /\ mainPc = "updatePack"
    /\ \/ UpdatePackSkip
       \/ FetchManifestFails
       \/ FetchManifest
       \/ OpenManifestFails
       \/ ParseManifestFails
       \/ ParseManifest
       \/ UpToDate
       \/ Cleanup
       \/ DownloadPackFails
       \/ DownloadPack
       \/ ExtractPackFails
       \/ ExtractPack

PackNext ==
    \/ MainLoadConfig /\ UNCHANGED notMainVars
    \/ MainPrepareFails /\ UNCHANGED notMainVars
    \/ MainPrepare /\ UNCHANGED notMainVars
    \/ UpdatePackNext /\ UNCHANGED notMainVars
    \/ MainUpdatePackFailed /\ UNCHANGED notMainVars
    \/ MainAuthlibFails /\ UNCHANGED notMainVars
    \/ MainAuthlib /\ UNCHANGED notMainVars
    \/ MainSaveConfig /\ UNCHANGED notMainVars
    \/ Kill /\ UNCHANGED notMainVars
    \/ NextRun /\ UNCHANGED notMainVars

---------------------------------------------------------------------------
(* downloadFile and httpGet (src/download.cpp)                             *)

\* How one pass of downloadFile's for body can end: the CURL handle is not
\* valid, outputPath cannot be opened for writing, the transfer fails, the
\* response code is 400 or more, the file is not there afterwards, it is
\* empty, its size cannot be read, or the download is complete.
DlOutcomes ==
    {"curlInit", "openFailed", "transferError", "httpError", "missing",
     "empty", "verifyThrows", "ok"}

\* The outcomes in which curl_easy_perform ran for the transfer.
DlTransferred == DlOutcomes \ {"curlInit", "openFailed"}

\* What is at outputPath after a pass that found f there, given whether the
\* fs::remove of the pass's clean-up worked (its failure is swallowed).
\* fopen(outputPath, "wb") truncates what was there.
DlFileAfter(outcome, f, removed) ==
    CASE outcome \in {"curlInit", "openFailed"} -> f
      [] outcome \in {"transferError", "httpError", "empty"} ->
            IF removed THEN "none" ELSE "partial"
      [] outcome = "missing" -> "none"
      [] OTHER -> "complete"

\* What is at outputPath when the pass starts its work: from the second
\* attempt on, a file that is there is removed first, unless that fails.
DlFileBefore(attempt, f) ==
    IF attempt > 1 /\ f # "none" THEN {"none", f} ELSE {f}

NetIdle ==
    /\ dlPc = "idle"
    /\ dlAttempt = 0
    /\ dlFile = "none"
    /\ dlResult = "none"
    /\ dlTransfers = 0
    /\ dlLog = <<>>
    /\ getPc = "idle"
    /\ getAttempt = 0
    /\ getRequests = 0
    /\ getFailures = 0
    /\ getResponse = <<>>

\* A call of downloadFile, with nothing or a file of an earlier run at
\* outputPath, and a call of httpGet.
NetInit ==
    /\ dlPc = "start"
    /\ dlAttempt = 0
    /\ dlFile \in {"none", "old"}
    /\ dlResult = "none"
    /\ dlTransfers = 0
    /\ dlLog = <<>>
    /\ getPc = "start"
    /\ getAttempt = 0
    /\ getRequests = 0
    /\ getFailures = 0
    /\ getResponse = <<>>

getUnchanged == <<getPc, getAttempt, getRequests, getFailures, getResponse>>
dlUnchanged == <<dlPc, dlAttempt, dlFile, dlResult, dlTransfers, dlLog>>

\* fs::create_directories(parent) throws: return false.
DlCreateDirectoriesFails ==
    /\ dlPc = "start"
    /\ dlFile = "none"
    /\ dlPc' = "returned"
    /\ dlResult' = "false"
    /\ UNCHANGED <<dlAttempt, dlFile, dlTransfers, dlLog, getUnchanged>>

\* for (int attempt = 1; ...
DlEnterLoop ==
    /\ dlPc = "start"
    /\ dlPc' = "attempt"
    /\ dlAttempt' = 1
    /\ UNCHANGED <<dlFile, dlResult, dlTransfers, dlLog, getUnchanged>>

\* One pass of the for body.
DlAttempt ==
    /\ dlPc = "attempt"
    /\ \E outcome \in DlOutcomes, removed \in BOOLEAN :
         /\ \E f \in DlFileBefore(dlAttempt, dlFile) :
               dlFile' = DlFileAfter(outcome, f, removed)
         /\ dlTransfers' = IF outcome \in DlTransferred
                           THEN dlTransfers + 1 ELSE dlTransfers
         /\ dlLog' = Append(dlLog, outcome)
         /\ IF outcome = "ok"
            THEN dlPc' = "returned" /\ dlResult' = "true"
                 /\ dlAttempt' = dlAttempt
            ELSE IF dlAttempt = MAX_RETRIES
            THEN dlPc' = "returned" /\ dlResult' = "false"
                 /\ dlAttempt' = dlAttempt
            ELSE dlPc' = "attempt" /\ dlResult' = dlResult
                 /\ dlAttempt' = dlAttempt + 1
    /\ UNCHANGED getUnchanged

\* How one pass of httpGet's for body can end: the CURL handle is not valid,
\* the request fails, the status is not 2xx, or the response is returned.
GetOutcomes == {"curlInit", "transportError", "status", "ok"}

\* The bodies a server answers with.
GetBodies == {<<>>, <<"body">>}

GetEnterLoop ==
    /\ getPc = "start"
    /\ getPc' = "attempt"
    /\ getAttempt' = 1
    /\ UNCHANGED <<getRequests, getFailures, getResponse, dlUnchanged>>

GetAttempt ==
    /\ getPc = "attempt"
    /\ \E outcome \in GetOutcomes, body \in GetBodies :
         /\ getRequests' = IF outcome = "curlInit"
                           THEN getRequests ELSE getRequests + 1
         /\ IF outcome = "ok"
            THEN /\ getPc' = "returned"
                 /\ getResponse' = body
                 /\ UNCHANGED <<getAttempt, getFailures>>
            ELSE /\ getFailures' = getFailures + 1
                 /\ getResponse' = <<>>
                 /\ IF getAttempt = MAX_RETRIES
                    THEN getPc' = "returned" /\ getAttempt' = getAttempt
                    ELSE getPc' = "attempt" /\ getAttempt' = getAttempt + 1
    /\ UNCHANGED dlUnchanged

notNetVars == <<substVars, ruleVars, launchVars, diskVars, buildVars, packVars,
                mainVars, authVars>>

NetNext ==
    \/ DlCreateDirectoriesFails /\ UNCHANGED notNetVars
    \/ DlEnterLoop /\ UNCHANGED notNetVars
    \/ DlAttempt /\ UNCHANGED notNetVars
    \/ GetEnterLoop /\ UNCHANGED notNetVars
    \/ GetAttempt /\ UNCHANGED notNetVars

---------------------------------------------------------------------------
(* authenticateUser (src/main.cpp)                                         *)

\* generateOfflineUUID: the version-3 UUID of the MD5 of
\* "OfflinePlayer:" + username.
generateOfflineUUID(user) ==
    <<"uuid3(", "OfflinePlayer:">> \o user \o <<")">>

Usernames == {<<"alice">>, <<"bob">>}
StoredUuid == <<"uuid-of-config.json">>

\* The answers of /api/auth/validate as httpGet returns them and json::parse
\* and the get<> calls take them.
ValidateResponse(kind, user) == [kind |-> kind, username |-> user]

ValidateFailures ==
    { ValidateResponse("empty", <<>>), ValidateResponse("unparseable", <<>>),
      ValidateResponse("noUsername", <<>>),
      ValidateResponse("usernameNotString", <<>>) }

ValidateResponses ==
    ValidateFailures
      \cup {ValidateResponse(k, u) :
              k \in {"ok", "registeredNotBool"}, u \in Usernames}

\* The answers of /authserver/authenticate: nothing (httpPost gave up), text
\* that is not JSON, JSON without "accessToken", with one that is not a
\* string, or with a string and no profile, a profile with a string id, or
\* a profile whose id get<std::string>() rejects.
YggResponse(kind, token, id) == [kind |-> kind, accessToken |-> token, id |-> id]

YggTokens == {<<"token-1">>, <<"0">>, <<>>}

YggResponses ==
    { YggResponse(k, <<>>, <<>>) :
        k \in {"empty", "unparseable", "noAccessToken", "tokenNotString"} }
      \cup { YggResponse("token", t, <<>>) : t \in YggTokens }
      \cup { YggResponse("tokenProfile", t, <<"profile-id">>) : t \in YggTokens }
      \cup { YggResponse("tokenBadProfile", t, <<>>) : t \in YggTokens }

NoYggResponse == YggResponse("none", <<>>, <<>>)

\* The try block over yggResponse reaches its return true.
YggAccepted(r) == r.kind \in {"token", "tokenProfile"}

AuthIdle ==
    /\ authPc = "idle"
    /\ yggResponse = NoYggResponse
    /\ authResult = "none"
    /\ authUserType = <<>>
    /\ authUsername = <<>>
    /\ authUuid = <<>>
    /\ authLog = <<>>

\* main calls authenticateUser with the configuration as loaded and two
\* empty strings.
AuthInit ==
    /\ authPc = "validate"
    /\ yggResponse = NoYggResponse
    /\ authResult = "none"
    /\ authUserType = <<>>
    /\ authUsername \in {<<>>, <<"alice">>}
    /\ authUuid = StoredUuid
    /\ authLog = <<>>

launchButToken == <<pc, j, max_ram, authlibJar, mainClass, cp, placeholders,
                    jvmArgs, gameArgs, arg, argCount, launchFile, command,
                    launchLog>>
notAuthVars == <<substVars, ruleVars, diskVars, buildVars, packVars, mainVars,
                 netVars>>

\* getHWID reports an error: return false.
AuthHwidFails ==
    /\ authPc = "validate"
    /\ authPc' = "returned"
    /\ authResult' = "false"
    /\ authLog' = Append(authLog, "Failed to get HWID")
    /\ UNCHANGED <<yggResponse, authUserType, authUsername, authUuid,
                   accessToken, launchButToken, notAuthVars>>

\* The validate answer is empty, is not JSON, has no "username", or a get<>
\* throws: return false.  config.username is assigned before
\* "registered" is read.
AuthValidateFails ==
    /\ authPc = "validate"
    /\ \E r \in ValidateResponses :
         /\ r.kind # "ok"
         /\ authUsername' =
               IF r.kind = "registeredNotBool" THEN r.username
               ELSE authUsername
         /\ authLog' = authLog \o
               (CASE r.kind = "empty" ->
                       <<"Generated HWID", "Empty response from validate API">>
                  [] r.kind = "noUsername" ->
                       <<"Generated HWID", "Invalid validate response">>
                  [] r.kind = "registeredNotBool" ->
                       <<"Generated HWID", "Authenticated username from API",
                         "API validate parse error">>
                  [] OTHER -> <<"Generated HWID", "API validate parse error">>)
    /\ authPc' = "returned"
    /\ authResult' = "false"
    /\ UNCHANGED <<yggResponse, authUserType, authUuid, accessToken,
                   launchButToken, notAuthVars>>

\* The validate answer names the user.
AuthValidate ==
    /\ authPc = "validate"
    /\ \E u \in Usernames : authUsername' = u
    /\ authLog' = authLog \o
          <<"Generated HWID", "Authenticated username from API">>
    /\ authPc' = "yggdrasil"
    /\ UNCHANGED <<yggResponse, authResult, authUserType, authUuid,
                   accessToken, launchButToken, notAuthVars>>

\* httpPost to /authserver/authenticate returns.
AuthYggdrasilPost ==
    /\ authPc = "yggdrasil"
    /\ yggResponse' \in YggResponses
    /\ authPc' = "parse"
    /\ UNCHANGED <<authResult, authUserType, authUsername, authUuid, authLog,
                   accessToken, launchButToken, notAuthVars>>

\* The answer holds a string accessToken, and the profile id, when there is
\* a profile, is a string: return true.
AuthYggdrasil ==
    /\ authPc = "parse"
    /\ YggAccepted(yggResponse)
    /\ accessToken' = yggResponse.accessToken
    /\ authUserType' = <<"mojang">>
    /\ authUuid' = IF yggResponse.kind = "tokenProfile" THEN yggResponse.id
                   ELSE authUuid
    /\ authLog' = Append(authLog, "Obtained accessToken from Yggdrasil")
    /\ authPc' = "returned"
    /\ authResult' = "true"
    /\ UNCHANGED <<yggResponse, authUsername, launchButToken, notAuthVars>>

\* The access token the fallback leaves, given what the try block had
\* assigned: the assigned one.
FallbackAccessToken_Kept(assigned) == assigned

\* accessToken = "0";
FallbackAccessToken(assigned) == <<"0">>

\* What the try block has assigned to accessToken when it is left without
\* a return: the token of the answer whose profile id then threw.
AssignedInTry(r, token) ==
    IF r.kind = "tokenBadProfile" THEN r.accessToken ELSE token

\* Fallback to offline mode.
AuthFallback ==
    /\ authPc = "parse"
    /\ ~YggAccepted(yggResponse)
    /\ authUuid' = generateOfflineUUID(authUsername)
    /\ accessToken' = FallbackAccessToken(AssignedInTry(yggResponse, accessToken))
    /\ authUserType' = <<"legacy">>
    /\ authLog' = authLog \o
          <<(CASE yggResponse.kind = "empty" ->
                    "Empty or failed Yggdrasil response"
               [] yggResponse.kind = "noAccessToken" ->
                    "Yggdrasil response missing accessToken"
               [] OTHER -> "Yggdrasil parse error"),
            "Falling back to offline mode">>
    /\ authPc' = "returned"
    /\ authResult' = "true"
    /\ UNCHANGED <<yggResponse, authUsername, launchButToken, notAuthVars>>

\* main goes on from the authentication to launchMinecraft; it gets there
\* only with authlib-injector.jar on disk.
AuthCallLaunch ==
    /\ authPc = "returned"
    /\ authResult = "true"
    /\ pc = "idle"
    /\ pc' = "loadVersionJson"
    /\ authlibJar' = TRUE
    /\ launchLog' = <<"Starting Minecraft launch process.", "javaw path">>
    /\ UNCHANGED <<j, accessToken, max_ram, mainClass, cp, placeholders,
                   jvmArgs, gameArgs, arg, argCount, launchFile, command>>
    /\ UNCHANGED <<authVars, notAuthVars>>

AuthNext ==
    \/ AuthHwidFails
    \/ AuthValidateFails
    \/ AuthValidate
    \/ AuthYggdrasilPost
    \/ AuthYggdrasil
    \/ AuthFallback
    \/ AuthCallLaunch
    \/ LaunchNext

SubstNext ==
    \/ ScanStep /\ UNCHANGED notSubstVars
    \/ ScanExit /\ UNCHANGED notSubstVars

vars == <<substVars, ruleVars, launchVars, diskVars, buildVars, packVars, mainVars,
         ioVars>>

DiskIdle ==
    /\ versionFile = NoVersionFile
    /\ classpathFile = NoTextFile

\* The files a call of launchMinecraft may meet.
DiskInit ==
    /\ versionFile \in VersionFiles
    /\ classpathFile \in ClasspathFiles

InitSubst == SubstInit /\ RuleIdle /\ LaunchIdle /\ DiskIdle /\ BuildIdle
    /\ PackIdle /\ MainIdle /\ NetIdle /\ AuthIdle

SpecSubst == InitSubst /\ [][SubstNext]_vars

InitRules == RuleInit /\ SubstIdle /\ LaunchIdle /\ DiskIdle /\ BuildIdle
    /\ PackIdle /\ MainIdle /\ NetIdle /\ AuthIdle

SpecRules == InitRules /\ [][RuleNext]_vars

Init == LaunchInit /\ DiskInit /\ SubstIdle /\ RuleIdle /\ BuildIdle
    /\ PackIdle /\ MainIdle /\ NetIdle /\ AuthIdle

Next == LaunchNext

Spec == Init /\ [][Next]_vars

\* SpecWriter: writeLaunchArgs called on tokens spelled character by
\* character over a space, a double quote, a backslash and a letter.
WriterAlphabet == {" ", "\"", "\\", "a"}

WriterTokens == UNION {[1 .. n -> WriterAlphabet] : n \in 0 .. MaxTokenLen}

WriterMainClasses == {DefaultMainClass, <<"my", " ", "Main">>}

WriterGameArgs ==
    { <<>>, << <<"--demo">> >>, << <<"--title">>, <<"hello", " ", "world">> >> }

WriterInit ==
    /\ pc = "writeLaunchArgs"
    /\ j = NoJson
    /\ accessToken = <<>>
    /\ max_ram \in MaxRams
    /\ authlibJar = FALSE
    /\ mainClass \in WriterMainClasses
    /\ cp = <<>>
    /\ placeholders = <<>>
    /\ jvmArgs \in {<<>>} \cup {<<t>> : t \in WriterTokens}
    /\ gameArgs \in WriterGameArgs
    /\ arg = NoArg
    /\ argCount = 0
    /\ launchFile = << <<"stale-line">> >>
    /\ command = NoCommand
    /\ launchLog = <<"Starting Minecraft launch process.", "javaw path">>

WriterNext ==
    \/ WriteLaunchArgsFails /\ UNCHANGED notLaunchVars
    \/ WriteLaunchArgs /\ UNCHANGED notLaunchVars
    \/ ExecuteLaunchCommand /\ UNCHANGED notLaunchVars

InitWriter == WriterInit /\ DiskIdle /\ SubstIdle /\ RuleIdle /\ BuildIdle
    /\ PackIdle /\ MainIdle /\ NetIdle /\ AuthIdle

SpecWriter == InitWriter /\ [][WriterNext]_vars

\* SpecBuild: buildClasspathFromJson on a game directory.
InitBuild ==
    /\ BuildInit
    /\ versionFile \in BuildVersionFiles
    /\ classpathFile \in ClasspathFiles
    /\ LaunchIdle /\ SubstIdle /\ RuleIdle /\ PackIdle /\ MainIdle
    /\ NetIdle /\ AuthIdle

SpecBuild == InitBuild /\ [][BuildNext]_vars

\* Runs of the launcher up to the saved configuration: main's preparation,
\* updatePack, the authlib download and saveConfig, over the same game
\* directory and the same pack server.
InitPack ==
    /\ MainInit
    /\ LaunchIdle /\ DiskIdle /\ BuildIdle /\ SubstIdle /\ RuleIdle
    /\ NetIdle /\ AuthIdle

SpecPack == InitPack /\ [][PackNext]_vars

\* A call of downloadFile and a call of httpGet.
InitNet ==
    /\ NetInit
    /\ LaunchIdle /\ DiskIdle /\ BuildIdle /\ SubstIdle /\ RuleIdle
    /\ PackIdle /\ MainIdle /\ AuthIdle

SpecNet == InitNet /\ [][NetNext]_vars

\* One run of main from loadConfig to its return.  The version manifests it
\* meets: a legacy one and a modern one, each listing a library.
MainJsons ==
    { [NoJson EXCEPT
         !.libraries = Libraries(<<Lib(Name(NameGXA), NoRules, TRUE,
                                       Artifact(PathXY), "absent", "absent")>>)],
      [NoJson EXCEPT
         !.mainClass = <<"net.minecraft.client.main.Main">>,
         !.arguments = TRUE, !.jvm = TRUE, !.game = TRUE,
         !.libraries = Libraries(<<NameOnlyLib>>)] }

MainVersionFiles == {NoVersionFile} \cup {VersionFile(m) : m \in MainJsons}

\* authenticateUser leaves the Yggdrasil token, or "0".
MainAccessTokens == {<<"0">>, <<"token-1">>}

InitMain ==
    /\ MainInit
    /\ configFile.hasUrls
    /\ archive = PackItems
    /\ tree = OldTree
    /\ versionFile \in MainVersionFiles
    /\ classpathFile \in ClasspathFiles
    /\ buildPc = "idle"
    /\ buildJ = NoJson
    /\ libIdx = 1
    /\ classpathEntries = <<>>
    /\ buildResult = "none"
    /\ buildOut = <<>>
    /\ clientJar \in BOOLEAN
    /\ libFiles = AllLibPaths
    /\ nativesDir = "empty"
    /\ tempJar = FALSE
    /\ pc = "idle"
    /\ j = NoJson
    /\ accessToken \in MainAccessTokens
    /\ max_ram = <<"4G">>
    /\ authlibJar \in BOOLEAN
    /\ mainClass = <<>>
    /\ cp = <<>>
    /\ placeholders = <<>>
    /\ jvmArgs = <<>>
    /\ gameArgs = <<>>
    /\ arg = NoArg
    /\ argCount = 0
    /\ launchFile = << <<"stale-line">> >>
    /\ command = NoCommand
    /\ launchLog = <<>>
    /\ SubstIdle /\ RuleIdle /\ NetIdle /\ AuthIdle

\* main calls buildClasspathFromJson.
MainCallBuild ==
    /\ mainPc = "buildClasspath"
    /\ buildPc = "idle"
    /\ buildPc' = "readJson"
    /\ UNCHANGED <<buildJ, libIdx, classpathEntries, buildResult, buildOut,
                   clientJar, libFiles, nativesDir, tempJar>>
    /\ UNCHANGED <<substVars, ruleVars, launchVars, diskVars, packVars,
                   mainVars, ioVars>>

\* buildClasspathFromJson returned false: return 1.
MainBuildFailed ==
    /\ mainPc = "buildClasspath"
    /\ buildPc = "returned"
    /\ buildResult = "false"
    /\ mainPc' = "exit1"
    /\ UNCHANGED <<runs, prevRun>>
    /\ UNCHANGED <<substVars, ruleVars, launchVars, diskVars, buildVars,
                   packVars, ioVars>>

\* The result of buildClasspathFromJson is not looked at.
BuildSucceeded_Unchecked == buildPc = "returned"

\* !buildClasspathFromJson(...) is false.
BuildSucceeded == buildPc = "returned" /\ buildResult = "true"

\* buildClasspathFromJson returned true: main calls launchMinecraft.
MainCallLaunch ==
    /\ mainPc = "buildClasspath"
    /\ BuildSucceeded
    /\ mainPc' = "launchMinecraft"
    /\ pc' = "loadVersionJson"
    /\ launchLog' = <<"Starting Minecraft launch process.", "javaw path">>
    /\ UNCHANGED <<j, accessToken, max_ram, authlibJar, mainClass, cp,
                   placeholders, jvmArgs, gameArgs, arg, argCount, launchFile,
                   command>>
    /\ UNCHANGED <<runs, prevRun>>
    /\ UNCHANGED <<substVars, ruleVars, diskVars, buildVars, packVars, ioVars>>

\* launchMinecraft returned (it reports nothing): return 0.
MainReturn ==
    /\ mainPc = "launchMinecraft"
    /\ pc = "returned"
    /\ mainPc' = "exit0"
    /\ UNCHANGED <<runs, prevRun>>
    /\ UNCHANGED <<substVars, ruleVars, launchVars, diskVars, buildVars,
                   packVars, ioVars>>

MainNext ==
    \/ MainLoadConfig /\ UNCHANGED notMainVars
    \/ MainPrepareFails /\ UNCHANGED notMainVars
    \/ MainPrepare /\ UNCHANGED notMainVars
    \/ UpdatePackNext /\ UNCHANGED notMainVars
    \/ MainUpdatePackFailed /\ UNCHANGED notMainVars
    \/ MainAuthlibFails /\ UNCHANGED notMainVars
    \/ MainAuthlib /\ UNCHANGED notMainVars
    \/ MainSaveConfig /\ UNCHANGED notMainVars
    \/ MainCallBuild
    \/ BuildNext
    \/ MainBuildFailed
    \/ MainCallLaunch
    \/ LaunchNext
    \/ MainReturn

SpecMain == InitMain /\ [][MainNext]_vars

\* authenticateUser, then launchMinecraft with the access token it left.
InitAuth ==
    /\ AuthInit
    /\ pc = "idle"
    /\ j = NoJson
    /\ accessToken = <<>>
    /\ max_ram = <<"4G">>
    /\ authlibJar \in BOOLEAN
    /\ mainClass = <<>>
    /\ cp = <<>>
    /\ placeholders = <<>>
    /\ jvmArgs = <<>>
    /\ gameArgs = <<>>
    /\ arg = NoArg
    /\ argCount = 0
    /\ launchFile = << <<"stale-line">> >>
    /\ command = NoCommand
    /\ launchLog = <<>>
    /\ versionFile \in MainVersionFiles
    /\ classpathFile \in ClasspathFiles
    /\ SubstIdle /\ RuleIdle /\ BuildIdle /\ PackIdle /\ MainIdle /\ NetIdle

SpecAuth == InitAuth /\ [][AuthNext]_vars

---------------------------------------------------------------------------
(* Properties of the rule loops (SpecRules)                                *)

\* A rule that clears include, read off the rule alone: an allow whose OS
\* constraint is not windows, or a disallow whose OS constraint is windows
\* or that has none.
OsConstraintMatches(rule) == rule.os = "absent" \/ rule.os = "windows"

Excludes(rule) ==
    \/ rule.action = "allow" /\ ~OsConstraintMatches(rule)
    \/ rule.action = "disallow" /\ OsConstraintMatches(rule)

\* C1: in both functions the rule loop is a left fold from include = TRUE:
\* after the first k rules include is FALSE exactly when one of them is an
\* allow rule whose OS constraint does not match windows or a disallow rule
\* whose OS constraint matches (a rule with no OS constraint matches); the
\* value returned is that of the whole list, TRUE for an empty or absent one.
C1_RuleFold ==
    /\ rulePc = "loop" =>
         include = ~(\E i \in 1 .. ruleIdx - 1 : Excludes(rules.list[i]))
    /\ rulePc = "done" =>
         include = ~(\E i \in 1 .. Len(rules.list) : Excludes(rules.list[i]))

\* C1 witness: allow-windows kept the library, a disallow without OS
\* constraint then cleared it.
C1_Witness ==
    /\ rulePc = "done"
    /\ ruleFn = "lib"
    /\ rules.present
    /\ rules.list = << [action |-> "allow", os |-> "windows", features |-> FALSE],
                       [action |-> "disallow", os |-> "absent", features |-> FALSE] >>
    /\ ~include

\* C2 as stated: every rule is applied, and whatever the outcome of the rules
\* seen so far, some later rule can change it (in either direction).
C2_OverrideEitherWay ==
    /\ (rulePc = "done" /\ rules.present) => ruleIdx = Len(rules.list) + 1
    /\ rulePc = "loop" =>
         \E r \in RuleSet : RuleBody(ruleFn, include, r) # include

\* C2 amended: every rule of the list is visited (no early exit); while
\* include is TRUE a later rule can clear it; once include is FALSE no rule
\* sets it back to TRUE.
C2_NoEarlyExitOneWay ==
    /\ (rulePc = "done" /\ rules.present) => ruleIdx = Len(rules.list) + 1
    /\ (rulePc = "loop" /\ include) =>
         \E r \in RuleSet : ~RuleBody(ruleFn, include, r)
    /\ (rulePc = "loop" /\ ~include) =>
         \A r \in RuleSet : ~RuleBody(ruleFn, include, r)

\* C2 witness: the first rule excluded, the two rules after it were still
\* visited, and the allow-windows rule at the end did not re-include.
C2_Witness ==
    /\ rulePc = "done"
    /\ rules.present
    /\ Len(rules.list) = 3
    /\ ruleIdx = 4
    /\ Excludes(rules.list[1])
    /\ rules.list[3] = [action |-> "allow", os |-> "windows", features |-> FALSE]
    /\ ~include

---------------------------------------------------------------------------
(* Properties of replacePlaceholders (SpecSubst)                           *)

\* The reading of a template span by span, on the template text alone: the
\* text before the first "${", then the span's value (or the span itself,
\* when its key is unknown), then the reading of what follows the span.
HasOpen(t, i) == i < Len(t) /\ t[i] = "$" /\ t[i + 1] = "{"

RECURSIVE SpanReading(_, _)
SpanReading(t, ph) ==
    LET opens == {i \in 1 .. Len(t) : HasOpen(t, i)}
    IN IF opens = {} THEN t
       ELSE LET o == Min(opens)
                closes == {k \in o .. Len(t) : t[k] = "}"}
            IN IF closes = {} THEN t
               ELSE LET c == Min(closes)
                        key == SubSeq(t, o + 2, c - 1)
                        rest == SubSeq(t, c + 1, Len(t))
                    IN SubSeq(t, 1, o - 1)
                         \o (IF key \in DOMAIN ph THEN ph[key] ELSE SubSeq(t, o, c))
                         \o SpanReading(rest, ph)

ExampleMap == <<"auth_player_name">> :> <<"Steve">>

\* C5: the result is the left-to-right reading of the template's spans: a
\* span with a known key is replaced whole by its value, a span with an
\* unknown key stays and the spans after it are still read, a "${" without
\* "}" leaves the remainder as it is; "${auth_player_name}" gives "Steve"
\* and "${unknown_key}" stays.
C5_SpanBySpan ==
    substPc = "done" =>
        /\ result = SpanReading(substArg, substMap)
        /\ replacePlaceholders(<<"$", "{", "auth_player_name", "}">>, ExampleMap)
             = <<"Steve">>
        /\ replacePlaceholders(<<"$", "{", "unknown_key", "}">>, ExampleMap)
             = <<"$", "{", "unknown_key", "}">>

\* C5 witness: the span with the unknown (empty) key stayed, the span after
\* it was expanded.
C5_Witness ==
    /\ substPc = "done"
    /\ substArg = <<"$", "{", "}", "$", "{", "a", "}">>
    /\ <<"a">> \in DOMAIN substMap
    /\ substMap[<<"a">>] = <<"v">>
    /\ result = <<"$", "{", "}", "v">>

NoOpen(t) == \A i \in 1 .. Len(t) : ~HasOpen(t, i)

\* C6: a single pass.  At the while condition the text still to be scanned,
\* result from pos on, is the tail of the template of the same length, so no
\* inserted symbol is ever scanned; hence a template that is one known span
\* followed by a tail without "${" gives the value followed by the tail, even
\* when value and tail hold or together form the span of a known key; and a
\* template without "${" is returned unchanged.
C6_SinglePass ==
    /\ substPc = "scan" =>
         /\ pos <= Len(result)
         /\ Len(result) - pos <= Len(substArg)
         /\ SubSeq(result, pos + 1, Len(result))
              = SubSeq(substArg, Len(substArg) - (Len(result) - pos) + 1,
                       Len(substArg))
    /\ substPc = "done" =>
         /\ NoOpen(substArg) => result = substArg
         /\ \A key \in DOMAIN substMap :
              LET span == <<"$", "{">> \o key \o <<"}">>
                  tail == SubSeq(substArg, Len(span) + 1, Len(substArg))
              IN (/\ Len(substArg) >= Len(span)
                  /\ SubSeq(substArg, 1, Len(span)) = span
                  /\ NoOpen(tail))
                    => result = substMap[key] \o tail

\* C6 witness: the value "${a" and the "}" after the span form "${a}", "a"
\* is a key of the map, and the result keeps "${a}".
C6_Witness ==
    /\ substPc = "done"
    /\ substArg = <<"$", "{", "a", "a", "}", "}">>
    /\ <<"a">> \in DOMAIN substMap
    /\ substMap[<<"a", "a">>] = <<"$", "{", "a">>
    /\ result = <<"$", "{", "a", "}">>

---------------------------------------------------------------------------
(* Properties of launchMinecraft (Spec)                                    *)

\* A step of one of the two range-fors over a modern list: arg' is the
\* element it handled.
ArgHandled == argCount' = argCount + 1

HasFeaturesRule(a) ==
    /\ a.kind = "object"
    /\ a.rules.present
    /\ \E i \in 1 .. Len(a.rules.list) : a.rules.list[i].features

\* C3: on either side, an object element with a rule that carries "features"
\* appends nothing, whatever the rule's action and OS and whether or not it
\* has an action.
C3_FeaturesExcluded ==
    [][(ArgHandled /\ HasFeaturesRule(arg'))
          => (jvmArgs' = jvmArgs /\ gameArgs' = gameArgs)]_vars

\* The Rule Evaluator as C1 reads it, on a "rules" member.
EvaluatorAccepts(member) ==
    ~(\E i \in 1 .. Len(member.list) : Excludes(member.list[i]))

RECURSIVE ValueStrings(_, _)
ValueStrings(items, ph) ==
    IF items = <<>> THEN <<>>
    ELSE (IF Head(items).isString
          THEN << SpanReading(Head(items).str, ph) >> ELSE <<>>)
         \o ValueStrings(Tail(items), ph)

\* What an element appends by the claim: nothing for null, the substituted
\* string for a string, and for an object accepted by the Rule Evaluator its
\* value (one string, or the strings of a sequence in order).
GatedContribution(a, ph) ==
    IF a.kind = "string" THEN << SpanReading(a.str, ph) >>
    ELSE IF a.kind = "object" /\ EvaluatorAccepts(a.rules)
         THEN IF a.value.kind = "string" THEN << SpanReading(a.value.str, ph) >>
              ELSE IF a.value.kind = "array" THEN ValueStrings(a.value.items, ph)
              ELSE <<>>
    ELSE <<>>

\* C4: on the JVM side and on the game side alike, an element (without
\* "features" rules) appends exactly its gated contribution to its own list,
\* in manifest order: an object the Rule Evaluator rejects appends nothing.
C4_RuleGatedBothSides ==
    [][(ArgHandled /\ ~HasFeaturesRule(arg'))
          => IF pc = "processModernJvmArgs"
             THEN /\ jvmArgs' = jvmArgs \o GatedContribution(arg', placeholders)
                  /\ gameArgs' = gameArgs
             ELSE /\ gameArgs' = gameArgs \o GatedContribution(arg', placeholders)
                  /\ jvmArgs' = jvmArgs]_vars

\* Both argument lists are complete.
ArgsComplete == pc \in {"writeLaunchArgs", "executeLaunchCommand"}

LegacyJvmThree ==
    << <<"-Djava.library.path=">> \o gameDir \o <<"natives">>, <<"-cp">>, cp >>

LegacyFlags ==
    << <<"--version">>, <<"--gameDir">>, <<"--assetsDir">>, <<"--assetIndex">>,
       <<"--uuid">>, <<"--username">>, <<"--accessToken">>, <<"--userType">> >>

LegacyValues ==
    << version, gameDir, gameDir \o <<"assets">>, getAssetIndexId(j),
       uuid, username, accessToken, userType >>

LegacyGameExact ==
    /\ Len(gameArgs) = 16
    /\ \A k \in 1 .. 8 : /\ gameArgs[2 * k - 1] = LegacyFlags[k]
                         /\ gameArgs[2 * k] = LegacyValues[k]

AgentApplies == accessToken # <<>> /\ accessToken # <<"0">> /\ authlibJar

AgentTokens ==
    << CertAgent,
       <<"-javaagent:">> \o gameDir \o <<"libraries/authlib-injector.jar", "=">>
         \o api_url >>

\* C7 as stated: for a manifest without "arguments" the JVM list is exactly
\* the three legacy tokens and the game list exactly the eight pairs.
C7_LegacyExactlyThree ==
    (ArgsComplete /\ ~j.arguments) =>
        /\ jvmArgs = LegacyJvmThree
        /\ LegacyGameExact

\* C7 amended: for a manifest without "arguments" the JVM list is the three
\* legacy tokens, preceded by the two agent tokens when the access token is
\* non-empty and not "0" and authlib-injector.jar exists; the game list is
\* exactly the eight pairs.
C7_LegacyAfterAgent ==
    (ArgsComplete /\ ~j.arguments) =>
        /\ jvmArgs = (IF AgentApplies THEN AgentTokens ELSE <<>>) \o LegacyJvmThree
        /\ LegacyGameExact

\* C7 witness: a legacy manifest, launched with a session token and the jar.
C7_Witness ==
    /\ pc = "writeLaunchArgs"
    /\ ~j.arguments
    /\ AgentApplies
    /\ Len(jvmArgs) = 5
    /\ Len(gameArgs) = 16

\* C8: addAuthlibInjector puts the certificate token and the -javaagent
\* token at positions 0 and 1 and shifts every other JVM argument by two,
\* when the token is non-empty and not "0" and the jar exists; otherwise it
\* leaves jvmArgs as it is; gameArgs is not touched.
C8_AgentPrepended ==
    [][pc = "addAuthlibInjector" =>
          /\ gameArgs' = gameArgs
          /\ IF AgentApplies
             THEN /\ Len(jvmArgs') = Len(jvmArgs) + 2
                  /\ jvmArgs'[1] = AgentTokens[1]
                  /\ jvmArgs'[2] = AgentTokens[2]
                  /\ \A i \in 1 .. Len(jvmArgs) : jvmArgs'[i + 2] = jvmArgs[i]
             ELSE jvmArgs' = jvmArgs]_vars

\* C8 witness: the agent tokens stand ahead of two arguments of a modern list.
C8_Witness ==
    /\ pc = "processGameArguments"
    /\ j.jvm
    /\ AgentApplies
    /\ Len(jvmArgs) = 4
    /\ jvmArgs[1] = CertAgent
    /\ jvmArgs[3] = <<"--user">>
    /\ jvmArgs[4] = <<"Steve">>

XmxLines == IF max_ram # <<>> THEN 1 ELSE 0

MainClassLine == XmxLines + Len(jvmArgs) + 1

Written == pc = "executeLaunchCommand" \/ command # NoCommand

\* C9 as stated: in the file the agent tokens come after the manifest's JVM
\* arguments, immediately before the main class.
C9_AgentBeforeMainClass ==
    (Written /\ AgentApplies) =>
        /\ launchFile[MainClassLine] = writeArg(mainClass)
        /\ launchFile[MainClassLine - 2] = writeArg(AgentTokens[1])
        /\ launchFile[MainClassLine - 1] = writeArg(AgentTokens[2])
        /\ \A i \in 1 .. Len(jvmArgs) - 2 :
             launchFile[XmxLines + i] = writeArg(jvmArgs[i + 2])

\* C9 amended: in the file the agent tokens, when present, are the first two
\* JVM arguments, right after the optional -Xmx line and ahead of the
\* manifest's JVM arguments; then the main class, then the game arguments.
C9_AgentFirst ==
    Written =>
        /\ launchFile[MainClassLine] = writeArg(mainClass)
        /\ AgentApplies =>
             /\ launchFile[XmxLines + 1] = writeArg(AgentTokens[1])
             /\ launchFile[XmxLines + 2] = writeArg(AgentTokens[2])
             /\ MainClassLine >= XmxLines + 3
             /\ ~j.arguments =>
                  \A i \in 1 .. 3 :
                     launchFile[XmxLines + 2 + i] = writeArg(LegacyJvmThree[i])
        /\ ~AgentApplies =>
             \A i \in 1 .. Len(launchFile) :
                 launchFile[i] \notin {writeArg(AgentTokens[1]), writeArg(AgentTokens[2])}
        /\ \A i \in 1 .. Len(gameArgs) :
             launchFile[MainClassLine + i] = writeArg(gameArgs[i])

\* C9 witness: -Xmx, the two agent tokens, the three legacy tokens, the main
\* class.
C9_Witness ==
    /\ pc = "executeLaunchCommand"
    /\ AgentApplies
    /\ max_ram # <<>>
    /\ ~j.arguments
    /\ launchFile[2] = CertAgent
    /\ launchFile[5] = <<"-cp">>
    /\ launchFile[7] = mainClass

\* C10: once written, launch_args.txt holds one line per token and nothing
\* else: the -Xmx<max_ram> line exactly when max_ram is non-empty, the JVM
\* arguments in order, the main class, the game arguments in order; and when
\* the file could not be opened the launch has returned without a command.
C10_LaunchFileOrder ==
    /\ Written =>
         /\ Len(launchFile) = XmxLines + Len(jvmArgs) + 1 + Len(gameArgs)
         /\ max_ram # <<>> => launchFile[1] = writeArg(<<"-Xmx">> \o max_ram)
         /\ \A i \in 1 .. Len(jvmArgs) :
              launchFile[XmxLines + i] = writeArg(jvmArgs[i])
         /\ launchFile[MainClassLine] = writeArg(mainClass)
         /\ \A i \in 1 .. Len(gameArgs) :
              launchFile[MainClassLine + i] = writeArg(gameArgs[i])
    /\ "Failed to write launch arguments" \in Range(launchLog) =>
         /\ pc = "returned"
         /\ command = NoCommand
         /\ launchFile = << <<"stale-line">> >>
    /\ command # NoCommand => pc = "returned"

\* C10 witness: a launch that wrote -Xmx, JVM arguments, the main class and
\* game arguments, and spawned the process.
C10_Witness ==
    /\ pc = "returned"
    /\ command # NoCommand
    /\ max_ram = <<"4G">>
    /\ j.jvm
    /\ j.game
    /\ Len(jvmArgs) = 3
    /\ Len(gameArgs) = 2
    /\ launchFile[1] = <<"-Xmx", "4G">>
    /\ launchFile[5] = mainClass

---------------------------------------------------------------------------
(* Properties of the launch-file writer (SpecWriter)                       *)

\* The tokens handed to the writer, in the order it takes them.
TokensToWrite ==
    (IF max_ram # <<>> THEN << <<"-Xmx">> \o max_ram >> ELSE <<>>)
      \o jvmArgs \o << mainClass >> \o gameArgs

HasSpace(t) == \E k \in 1 .. Len(t) : t[k] = " "

\* C11: in the launch file a token is wrapped in double quotes if and only
\* if it holds a space; a token without a space is written bare; and every
\* character of the token (a double quote and a backslash included) is in
\* the line as it is in the token.
C11_QuotedIffSpace ==
    Written =>
        /\ Len(launchFile) = Len(TokensToWrite)
        /\ \A i \in 1 .. Len(TokensToWrite) :
             LET t == TokensToWrite[i]
                 line == launchFile[i]
             IN IF HasSpace(t)
                THEN /\ Len(line) = Len(t) + 2
                     /\ line[1] = "\""
                     /\ line[Len(line)] = "\""
                     /\ \A k \in 1 .. Len(t) : line[k + 1] = t[k]
                ELSE line = t

\* C11 witness: a written file whose JVM token, a space followed by a double
\* quote, is wrapped with the inner quote left as it is, and whose game
\* token --demo is bare.
C11_Witness ==
    /\ Written
    /\ jvmArgs = << <<" ", "\"">> >>
    /\ gameArgs = << <<"--demo">> >>
    /\ max_ram = <<>>
    /\ launchFile[1] = <<"\"", " ", "\"", "\"">>
    /\ launchFile[3] = <<"--demo">>

---------------------------------------------------------------------------
(* Properties of the resolve pass (SpecBuild)                              *)

\* The libraries the range-for has been through.
Visited == SubSeq(buildJ.libraries.list, 1, libIdx - 1)

LibrariesDone == buildPc \in {"writeClasspath", "returned"} /\ buildResult # "false"

\* C12 as stated (the launcher runs on windows: "windows" is the OS name the
\* rule loop compares with): once the pass is through the libraries, a
\* library given only by the coordinate g.x:a:1.0 and the rule allow / os
\* windows, whose jar exists at the path derived from the coordinate, is in
\* the classpath.
C12_NameOnlyIncluded ==
    (LibrariesDone /\ NameOnlyLib \in Range(Visited)
       /\ PathFromName(NameGXA) \in libFiles) =>
        libDir \o PathFromName(NameGXA) \in Range(classpathEntries)

\* Whether a library resolves to a file, and to which.
Resolves(l) ==
    /\ l.downloads
    /\ l.artifact.present
    /\ l.downloadOnly # "true"
    /\ getLibraryPath(l) # <<>>

FatalMessages ==
    {"Version JSON not found", "Failed to open", "JSON parse error",
     "Missing client JAR", "Failed to create classpath.txt"}

ManifestReadable == versionFile.present /\ versionFile.parses

\* C13: the resolve pass is fail-soft for libraries and natives and fatal
\* for the client jar.  A step of the library loop never ends the pass; a
\* compatible library whose resolved file is missing adds nothing to the
\* classpath; a failed download or extraction of natives changes neither the
\* classpath nor the course of the pass; the pass returns false only on one
\* of its fatal conditions, and returns false, with classpath.txt left as it
\* was, whenever the client jar is missing or the manifest is missing or
\* unparseable.
C13_FailSoft ==
    [][ /\ libIdx' = libIdx + 1 =>
             LET l == buildJ.libraries.list[libIdx]
             IN /\ buildPc' = "libraries"
                /\ buildResult' = "none"
                /\ (isLibraryCompatible(l.rules) /\ Resolves(l)
                      /\ getLibraryPath(l) \notin libFiles) =>
                       /\ classpathEntries' = classpathEntries
                       /\ "Missing library" \in Range(buildOut')
                /\ (Len(buildOut') > Len(buildOut)
                      /\ buildOut'[Len(buildOut')] \in
                           {"Download failed", "Extraction failed"}) =>
                       Len(classpathEntries') =
                           Len(classpathEntries)
                             + (IF isLibraryCompatible(l.rules) /\ Resolves(l)
                                     /\ getLibraryPath(l) \in libFiles
                                THEN 1 ELSE 0)
        /\ buildResult' = "false" =>
             /\ buildOut' # <<>>
             /\ buildOut'[Len(buildOut')] \in FatalMessages
        /\ (~clientJar \/ ~ManifestReadable) =>
             /\ classpathFile' = classpathFile
             /\ buildResult' # "true"
             /\ buildPc' = "returned" => buildResult' = "false"
      ]_vars

\* C13 witness: a pass that returned true although a library file was
\* missing and the extraction of the natives failed.
C13_Witness ==
    /\ buildResult = "true"
    /\ "Missing library" \in Range(buildOut)
    /\ "Extraction failed" \in Range(buildOut)
    /\ classpathEntries = << clientPath >>

\* text.split(sep): the pieces between the separators.
RECURSIVE SplitOn(_, _)
SplitOn(text, sep) ==
    LET p == Find(text, <<sep>>, 0)
    IN IF p = npos THEN << text >>
       ELSE << Substr(text, 0, p) >>
              \o SplitOn(Substr(text, p + 1, Len(text) - p - 1), sep)

\* The paths of the libraries that enter the classpath, in manifest order.
RECURSIVE IncludedPaths(_)
IncludedPaths(libs) ==
    IF libs = <<>> THEN <<>>
    ELSE (IF isLibraryCompatible(Head(libs).rules) /\ Resolves(Head(libs))
               /\ getLibraryPath(Head(libs)) \in libFiles
          THEN << libDir \o getLibraryPath(Head(libs)) >> ELSE <<>>)
           \o IncludedPaths(Tail(libs))

ExpectedClasspath ==
    (IF buildJ.libraries.isArray THEN IncludedPaths(buildJ.libraries.list) ELSE <<>>)
      \o << clientPath >>

RECURSIVE SplitEach(_, _)
SplitEach(entries, sep) ==
    IF entries = <<>> THEN <<>>
    ELSE SplitOn(Head(entries), sep) \o SplitEach(Tail(entries), sep)

\* C14 as stated: after a successful pass, classpath.txt read back with
\* loadClasspath and split on ";" yields exactly the paths of the included
\* libraries in manifest order, then the client jar.
C14_RoundTrip ==
    buildResult = "true" =>
        /\ loadClasspath(classpathFile).ok
        /\ SplitOn(loadClasspath(classpathFile).cp, ";") = ExpectedClasspath

\* C14 amended: after a successful pass classpath.txt holds the paths of the
\* included libraries in manifest order (one listed twice appears twice),
\* then the client jar, joined by ";" with no separator at the end; read
\* back and split on ";" it yields exactly these paths when none of them
\* holds a ";", and in general the pieces of these paths, a path that holds
\* a ";" coming back as several entries.
C14_JoinedInOrder ==
    buildResult = "true" =>
        /\ classpathEntries = ExpectedClasspath
        /\ loadClasspath(classpathFile).ok
        /\ LET text == loadClasspath(classpathFile).cp
           IN /\ text # <<>>
              /\ text[Len(text)] # ";"
              /\ SplitOn(text, ";") = SplitEach(ExpectedClasspath, ";")
              /\ (\A i \in 1 .. Len(ExpectedClasspath) :
                      ";" \notin Range(ExpectedClasspath[i])) =>
                     SplitOn(text, ";") = ExpectedClasspath

\* C14 witness: a classpath of the same library twice and the client jar,
\* which comes back from the file as these three paths.
C14_Witness ==
    /\ buildResult = "true"
    /\ Len(classpathEntries) = 3
    /\ classpathEntries[1] = libDir \o PathXY
    /\ classpathEntries[2] = libDir \o PathXY
    /\ SplitOn(classpathFile.text, ";") = classpathEntries


---------------------------------------------------------------------------
(* Pack synchronisation                                                    *)

StepsDone == Range(packSteps)

\* updatePack is running and takes a step of its own.
InUpdatePack ==
    mainPc = "updatePack" /\ mainPc' = "updatePack" /\ packPc # "returned"

\* The call ends in the comparison with equal versions: the served manifest
\* yields the version the launcher holds.
UpToDateCase ==
    /\ hasUrls
    /\ parseRemoteVersion(remoteManifest).ok
    /\ parseRemoteVersion(remoteManifest).version = pack_version

\* C15: when the remote manifest's version equals the local pack version,
\* no step of updatePack deletes or changes any of config/, fancymenu_data/,
\* mods/, shaderpacks/ or servers.dat, none downloads the pack archive or
\* changes the pack version, and the comparison step removes the temporary
\* manifest and returns true.
C15_UpToDate ==
    [][ (InUpdatePack /\ UpToDateCase)
          => /\ tree' = tree
             /\ packZip' = packZip
             /\ pack_version' = pack_version
             /\ "cleaned" \notin Range(packSteps')
             /\ "downloaded" \notin Range(packSteps')
             /\ packPc = "compare"
                  => /\ packPc' = "returned"
                     /\ packResult' = "true"
                     /\ ~tempManifest' ]_vars

\* updatePack has returned from the comparison of "1.0.0" with "1.0.0",
\* over a game directory that holds the old pack.
C15_Witness ==
    /\ packPc = "returned"
    /\ "upToDate" \in StepsDone
    /\ packResult = "true"
    /\ pack_version = <<"1.0.0">>
    /\ remoteManifest = StringVersion(<<"1.0.0">>)
    /\ tree = OldTree
    /\ ~tempManifest

\* "cleaned" comes before "extracted" among the steps of the call.
CleanedBeforeExtracted ==
    \E a, b \in DOMAIN packSteps :
        a < b /\ packSteps[a] = "cleaned" /\ packSteps[b] = "extracted"

\* updatePack has returned from a successful extraction.
SyncedStale == packPc = "returned" /\ "extracted" \in StepsDone

\* C16 as stated: after a stale sync that downloaded and extracted the
\* archive, each of config/, fancymenu_data/, mods/, shaderpacks/ is absent
\* or holds only content of the new archive, the old servers.dat is gone,
\* the pack version equals the remote version, and the cleanup came before
\* the extraction.
C16_StaleReplaced ==
    SyncedStale
      => /\ \A i \in PackItems : tree[i] \subseteq {"new"}
         /\ pack_version = remote_version
         /\ CleanedBeforeExtracted

\* C16, amended: the same for every item the cleanup did not log a failed
\* deletion for; pack.zip and the temporary manifest are removed.
C16_StaleReplacedUnlessDeleteFailed ==
    SyncedStale
      => /\ \A i \in PackItems \ deleteFailed : tree[i] \subseteq {"new"}
         /\ pack_version = remote_version
         /\ CleanedBeforeExtracted
         /\ ~packZip
         /\ ~tempManifest

\* local "1.0.0", remote "1.1.0", the old pack on disk, the whole archive
\* extracted after a cleanup in which the deletion of mods/ failed.
C16_Witness ==
    /\ SyncedStale
    /\ remoteManifest = StringVersion(<<"1.1.0">>)
    /\ configFile.pack_version = <<"1.0.0">>
    /\ pack_version = <<"1.1.0">>
    /\ archive = PackItems
    /\ deleteFailed = {"mods"}
    /\ tree["config"] = {"new"}
    /\ tree["mods"] = {"old", "new"}

\* The step that updatePack takes returns false.
ReturnsFalse == packPc' = "returned" /\ packResult' = "false"

\* C17: a failed manifest download makes updatePack return false with no
\* pack item touched and the pack version as it was; a failed archive
\* download or a failed extraction makes it return false with the pack
\* version at its old value (the one config.json holds), and after a failed
\* extraction pack.zip is gone.
C17_FailurePaths ==
    [][ InUpdatePack
          => /\ "fetchFailed" \in Range(packSteps')
                  => /\ ReturnsFalse
                     /\ tree' = tree
                     /\ packSteps' = <<"fetchFailed">>
                     /\ pack_version' = pack_version
             /\ "downloadFailed" \in Range(packSteps')
                  => /\ ReturnsFalse
                     /\ pack_version' = pack_version
                     /\ pack_version' = configFile'.pack_version
             /\ "extractFailed" \in Range(packSteps')
                  => /\ ReturnsFalse
                     /\ pack_version' = pack_version
                     /\ pack_version' = configFile'.pack_version
                     /\ ~packZip'
             /\ ReturnsFalse
                  => /\ pack_version' = pack_version
                     /\ Range(packSteps')
                          \cap {"fetchFailed", "openFailed", "parseError",
                                "downloadFailed", "extractFailed"} # {} ]_vars

\* updatePack has returned false from a failed extraction of the archive
\* for "1.1.0" over a pack at "1.0.0".
C17_Witness ==
    /\ packPc = "returned"
    /\ packResult = "false"
    /\ packSteps = <<"fetched", "parsed", "cleaned", "downloaded",
                     "extractFailed">>
    /\ pack_version = <<"1.0.0">>
    /\ remote_version = <<"1.1.0">>
    /\ ~packZip

\* The version the served manifest yields.
ServedVersion == parseRemoteVersion(remoteManifest).version

\* C18: once a run has deleted pack content and no extraction has completed
\* since (the run failed or was stopped), config.json holds a pack version
\* other than the served one; in such a state the comparison of updatePack
\* goes on to the cleanup, and updatePack returns true only from a completed
\* extraction; and the pack version in config.json changes only in main's
\* saveConfig after an extraction completed in the same run, to the remote
\* version.
C18_Recovery ==
    /\ [](NeedsRecovery
            => /\ parseRemoteVersion(remoteManifest).ok
               /\ configFile.pack_version # ServedVersion)
    /\ [][ /\ (NeedsRecovery /\ InUpdatePack /\ packPc = "compare")
                => /\ "cleaned" \in Range(packSteps')
                   /\ packPc' = "download"
           /\ (NeedsRecovery /\ InUpdatePack /\ packResult' = "true")
                => "extracted" \in Range(packSteps')
           /\ configFile'.pack_version # configFile.pack_version
                => /\ mainPc = "saveConfig"
                   /\ "extracted" \in StepsDone
                   /\ configFile'.pack_version = remote_version ]_vars

\* The first run was stopped between the cleanup and the end of the
\* extraction; the second run has cleaned again, extracted, and saved
\* "1.1.0".
C18_Witness ==
    /\ runs = 2
    /\ prevRun = [end |-> "killed", stripped |-> TRUE, unsaved |-> FALSE,
                  skipped |-> FALSE, urlsSaved |-> TRUE]
    /\ SyncedStale
    /\ mainPc = "buildClasspath"
    /\ configFile.pack_version = <<"1.1.0">>
    /\ remote_version = <<"1.1.0">>

\* The served manifest is a JSON object without a string "version".
VersionMissingOrMalformed == remoteManifest.kind \in {"noVersion", "numberVersion"}

\* C19: when the downloaded manifest is valid JSON whose "version" is
\* missing or not a string, the parse step takes the remote version to be
\* "0.0.0" and goes on to the comparison; the parse step fails only for a
\* manifest that is not JSON.
C19_SoftDefault ==
    [][ (InUpdatePack /\ packPc = "parse"
           /\ "openFailed" \notin Range(packSteps'))
          => /\ VersionMissingOrMalformed
                  => /\ packPc' = "compare"
                     /\ remote_version' = <<"0.0.0">>
             /\ "parseError" \in Range(packSteps')
                  => remoteManifest = Unparseable ]_vars

---------------------------------------------------------------------------
(* The run as a whole                                                      *)

\* The files of the game directory that updatePack changes.
packFiles == <<tree, packZip, tempManifest>>

\* launchMinecraft has loaded the version manifest and classpath.txt and
\* written launch_args.txt from them.
LaunchPrepared ==
    /\ versionFile.present /\ versionFile.parses
    /\ j = versionFile.json
    /\ classpathFile.present
    /\ cp = classpathFile.text
    /\ launchFile = LaunchLines(max_ram, jvmArgs, mainClass, gameArgs)
    /\ "Failed to write launch arguments" \notin Range(launchLog)

\* C20: in one run the classpath build starts only after updatePack returned
\* true, launchMinecraft only after buildClasspathFromJson returned true, and
\* the process is spawned only after all of that, with the version manifest
\* and classpath.txt loaded and launch_args.txt written; the pack files
\* change only before the build starts, classpath.txt only before
\* launchMinecraft starts, launch_args.txt only before the spawn; and the
\* command is issued at most once.
C20_PipelineOrder ==
    /\ [](/\ buildPc # "idle"
            => /\ packPc = "returned"
               /\ packResult = "true"
               /\ mainPc \in {"buildClasspath", "launchMinecraft", "exit0",
                              "exit1"}
          /\ pc # "idle"
            => /\ buildPc = "returned"
               /\ buildResult = "true"
               /\ mainPc \in {"launchMinecraft", "exit0"}
          /\ command # NoCommand
            => /\ pc = "returned"
               /\ packResult = "true"
               /\ buildResult = "true"
               /\ LaunchPrepared)
    /\ [][ /\ packFiles' # packFiles => buildPc = "idle" /\ pc = "idle"
           /\ classpathFile' # classpathFile
                => buildPc = "writeClasspath" /\ pc = "idle"
           /\ launchFile' # launchFile
                => pc = "writeLaunchArgs" /\ command = NoCommand
           /\ command' # command
                => /\ command = NoCommand
                   /\ pc = "executeLaunchCommand"
                   /\ pc' = "returned" ]_vars

\* A run that synchronised the pack from "1.0.0" to "1.1.0", built the
\* classpath, wrote the launch file of a modern manifest and spawned the
\* game.
C20_Witness ==
    /\ mainPc = "exit0"
    /\ command # NoCommand
    /\ "extracted" \in StepsDone
    /\ configFile.pack_version = <<"1.1.0">>
    /\ buildResult = "true"
    /\ j.jvm
    /\ accessToken = <<"token-1">>
    /\ LaunchPrepared

\* A failure that is fatal to the launch has been logged in this run: by
\* updatePack, by buildClasspathFromJson, or by launchMinecraft.
FatalFailure ==
    \/ /\ packResult = "false"
       /\ StepsDone \cap {"fetchFailed", "downloadFailed", "extractFailed"} # {}
    \/ /\ buildResult = "false"
       /\ Range(buildOut) \cap {"Version JSON not found", "Failed to open",
                                "JSON parse error", "Missing client JAR"} # {}
    \/ Range(launchLog) \cap {"Version JSON not found",
                              "Failed to open version JSON",
                              "JSON parse error",
                              "Failed to write launch arguments"} # {}

\* C21: after a fatal failure (version manifest missing or unreadable,
\* client jar missing, manifest download, pack download or extraction
\* failed, launch_args.txt not opened for writing) no game process is
\* spawned and the run ends with a non-zero exit code.
C21_FatalExitsNonZero ==
    FatalFailure
      => /\ command = NoCommand
         /\ mainPc \in {"exit0", "exit1"} => mainPc = "exit1"

---------------------------------------------------------------------------
(* Natives                                                                 *)

\* The step is processLibrary for the library at libIdx.
LibraryStep == buildPc = "libraries" /\ libIdx' = libIdx + 1

\* What the step has printed.
NewOutput == SubSeq(buildOut', Len(buildOut) + 1, Len(buildOut'))

\* processNatives of the step has started the download.
NativesDownloadStarted == "Downloading natives" \in Range(NewOutput)

\* C22: processNatives starts a download only for a library that lists a
\* natives.windows classifier, and only when the natives directory is
\* missing or empty at that moment; and when it has started one, no
\* temp_natives.jar is left in the game directory once it is done.
C22_NativesTrigger ==
    [][ (LibraryStep /\ NativesDownloadStarted)
          => /\ buildJ.libraries.list[libIdx].natives = "listed"
             /\ nativesDir = "empty"
             /\ ~tempJar' ]_vars

---------------------------------------------------------------------------
(* The network collaborators                                               *)

DlReturned(r) == dlPc = "returned" /\ dlResult = r

\* C23: downloadFile transfers at most MAX_RETRIES times, returns true at
\* the first pass that completes, returns false once MAX_RETRIES passes
\* have failed, and when it has returned false nothing it wrote is left at
\* outputPath; httpGet requests at most MAX_RETRIES times and returns the
\* empty string when every pass failed.
C23_NetContract ==
    /\ dlTransfers <= MAX_RETRIES
    /\ Len(dlLog) <= MAX_RETRIES
    /\ DlReturned("true")
         => /\ dlLog[Len(dlLog)] = "ok"
            /\ \A i \in 1 .. Len(dlLog) - 1 : dlLog[i] # "ok"
    /\ (Len(dlLog) = MAX_RETRIES /\ "ok" \notin Range(dlLog))
         => DlReturned("false")
    /\ DlReturned("false") => dlFile \notin {"partial", "complete"}
    /\ getRequests <= MAX_RETRIES
    /\ getFailures = MAX_RETRIES => getPc = "returned" /\ getResponse = <<>>

---------------------------------------------------------------------------
(* Pack synchronisation, further                                           *)

\* The step is the cleanup of a stale pack.
CleanupStep == InUpdatePack /\ packPc = "compare" /\ "cleaned" \in Range(packSteps')

\* C24: in the cleanup of a stale sync a failed deletion keeps that item as
\* it was and nothing else: every other item is removed, the cleanup does
\* not make updatePack return, and the sync goes on to the download.
C24_CleanupGoesOn ==
    [][ CleanupStep
          => /\ \A i \in PackItems \ deleteFailed' : tree'[i] = {}
             /\ \A i \in deleteFailed' : tree'[i] = tree[i] /\ tree[i] # {}
             /\ packPc' = "download"
             /\ packResult' = "none" ]_vars

\* A sync in which the deletion of servers.dat and config/ failed, and which
\* went on to remove the other items, download and extract.
C24_Witness ==
    /\ SyncedStale
    /\ packResult = "true"
    /\ deleteFailed = {"config", "servers.dat"}
    /\ archive = {"mods"}
    /\ tree["config"] = {"old"}
    /\ tree["servers.dat"] = {"old"}
    /\ tree["mods"] = {"new"}
    /\ tree["shaderpacks"] = {}

---------------------------------------------------------------------------
(* Rule lists, further                                                     *)

\* The permutations of 1 .. n.
Perms(n) ==
    {p \in [1 .. n -> 1 .. n] : \A a, b \in 1 .. n : a # b => p[a] # p[b]}

\* The rule excludes when it is the only rule of the list.
ExcludesAlone(fn, rule) == ~RuleBody(fn, TRUE, rule)

\* C25: a pass of the rule loop never sets include back to true; the value
\* returned for a rule list is false exactly when one of its rules excludes
\* on its own; and every permutation of the list gives the same value, in
\* isLibraryCompatible and in shouldIncludeConditionalArg.
C25_OrderIndependent ==
    /\ [][ (rulePc = "loop" /\ ~include) => ~include' ]_vars
    /\ [](rulePc = "done" /\ rules.present
            => /\ ~include <=> \E i \in DOMAIN rules.list :
                                   ExcludesAlone(ruleFn, rules.list[i])
               /\ \A p \in Perms(Len(rules.list)) :
                    RuleLoop(ruleFn, TRUE, 1,
                             [i \in DOMAIN rules.list |-> rules.list[p[i]]])
                      = include)

\* isLibraryCompatible has returned false for the list <<allow linux,
\* disallow (no OS), allow windows>>: the first two rules exclude, the
\* allowing rule after them changes nothing.
C25_Witness ==
    /\ rulePc = "done"
    /\ ruleFn = "lib"
    /\ rules.present
    /\ Len(rules.list) = 3
    /\ rules.list[1].action = "allow" /\ rules.list[1].os = "linux"
    /\ rules.list[2].action = "disallow" /\ rules.list[2].os = "absent"
    /\ rules.list[3].action = "allow" /\ rules.list[3].os = "windows"
    /\ ~include

\* The natives extractions that succeeded in this pass.
ExtractionsDone ==
    {i \in DOMAIN buildOut : buildOut[i] = "Extraction completed successfully."}

\* C26: once the natives directory is populated, processLibrary starts no
\* download and leaves the directory and the temp jar alone, whatever the
\* library declares; so at most one natives extraction succeeds in a pass,
\* and none in a pass that finds the directory populated.
C26_OneExtraction ==
    /\ [][ (LibraryStep /\ nativesDir = "populated")
             => /\ ~NativesDownloadStarted
                /\ nativesDir' = nativesDir
                /\ tempJar' = tempJar ]_vars
    /\ [](Cardinality(ExtractionsDone) <= 1)
    /\ [](ExtractionsDone # {} => nativesDir = "populated")

\* A pass over two compatible libraries that both list natives.windows: the
\* first one's natives were extracted, the second one's were not asked for.
C26_Witness ==
    /\ buildPc = "returned"
    /\ buildJ.libraries.isArray
    /\ Len(buildJ.libraries.list) = 2
    /\ \A i \in 1 .. 2 : NativesTriggered(buildJ.libraries.list[i], "empty")
    /\ Cardinality(ExtractionsDone) = 1
    /\ nativesDir = "populated"
    /\ ~tempJar

\* C27: config.json's pack version changes only in main's saveConfig, which
\* is reached with authlib-injector.jar on disk; a run that extracted the
\* new pack and then failed to download authlib-injector.jar has exit code
\* 1, config.json still holds the old version while the pack items hold the
\* new content; and in the next run the comparison goes to the cleanup, and
\* updatePack succeeds only by extracting again.
C27_SavedAfterAuthlib ==
    /\ [][ configFile'.pack_version # configFile.pack_version
             => mainPc = "saveConfig" /\ authlibJar ]_vars
    /\ [](UnsavedSync
            => /\ ~authlibJar
               /\ configFile.pack_version # remote_version
               /\ pack_version = remote_version
               /\ \A i \in archive : "new" \in tree[i])
    /\ [][ /\ (prevRun.unsaved /\ InUpdatePack /\ packPc = "compare")
                => /\ "cleaned" \in Range(packSteps')
                   /\ packPc' = "download"
           /\ (prevRun.unsaved /\ InUpdatePack /\ packResult' = "true")
                => "extracted" \in Range(packSteps') ]_vars

\* The first run extracted "1.1.0" and returned 1 from the authlib-injector
\* download; the second run has cleaned, extracted again, and saved.
C27_Witness ==
    /\ runs = 2
    /\ prevRun = [end |-> "exit1", stripped |-> FALSE, unsaved |-> TRUE,
                  skipped |-> FALSE, urlsSaved |-> TRUE]
    /\ SyncedStale
    /\ CleanedBeforeExtracted
    /\ mainPc = "buildClasspath"
    /\ authlibJar
    /\ configFile.pack_version = <<"1.1.0">>

\* C28: updatePack with an empty pack URL or manifest URL returns true with
\* no download, deletion or version change.  saveConfig stores placeholder
\* URLs for empty ones, so what is loaded back differs from what was held in
\* memory, and the run after a skipping run that left config.json with the
\* placeholders holds URLs and attempts the synchronisation; the run after
\* a skipping run that wrote nothing skips again.
SkipCall == InUpdatePack /\ packPc = "start" /\ ~hasUrls

SyncAttempted ==
    /\ hasUrls
    /\ packSteps # <<>>
    /\ packSteps[1] \in {"fetched", "fetchFailed"}

UpdatePackBegun == mainPc = "updatePack" /\ packPc \notin {"idle", "start"}

C28_SkipThenSyncIfSaved ==
    /\ [][ SkipCall =>
             /\ packPc' = "returned" /\ packResult' = "true"
             /\ packSteps' = <<"skipped">>
             /\ UNCHANGED <<packDisk, packLocals, tempManifest, packZip,
                            tree>> ]_vars
    /\ [][ configFile' # configFile =>
             /\ configFile'.hasUrls
             /\ hasUrls' = hasUrls ]_vars
    /\ \A file \in ConfigFiles, v \in {<<"0.0.0">>, <<"1.1.0">>} :
            saveConfig(file, v).hasUrls
    /\ [](prevRun.skipped /\ UpdatePackBegun =>
             IF prevRun.urlsSaved THEN SyncAttempted
             ELSE packSteps = <<"skipped">>)

\* C28 as stated: every run after a skipping run holds URLs and attempts the
\* synchronisation.
C28_SkipThenSync ==
    /\ [][ SkipCall =>
             /\ packPc' = "returned" /\ packResult' = "true"
             /\ packSteps' = <<"skipped">>
             /\ UNCHANGED <<packDisk, packLocals, tempManifest, packZip,
                            tree>> ]_vars
    /\ [][ configFile' # configFile => configFile'.hasUrls ]_vars
    /\ [](prevRun.skipped /\ UpdatePackBegun => SyncAttempted)

C28_Witness ==
    /\ runs = 2
    /\ prevRun.skipped /\ prevRun.urlsSaved /\ prevRun.end = "buildClasspath"
    /\ UpdatePackBegun
    /\ SyncAttempted

\* C29: when updatePack has returned after finding the pack up to date,
\* after a failed pack download, a failed extraction, a completed
\* synchronisation or a manifest that does not parse, neither
\* remote_manifest.json nor pack.zip is in the game directory, whatever an
\* earlier, stopped run left there.
ListedReturns ==
    {"upToDate", "downloadFailed", "extractFailed", "extracted", "parseError"}

UpdatePackReturnedBy(steps) ==
    /\ packPc = "returned"
    /\ packSteps # <<>>
    /\ packSteps[Len(packSteps)] \in steps

AuthSucceeded == authPc = "returned" /\ authResult = "true"

FellBack == "Falling back to offline mode" \in Range(authLog)

OnlineOutcome ==
    /\ yggResponse.kind \in {"token", "tokenProfile"}
    /\ accessToken = yggResponse.accessToken
    /\ authUserType = <<"mojang">>

OfflineOutcome ==
    /\ accessToken = <<"0">>
    /\ authUserType = <<"legacy">>
    /\ authUuid = generateOfflineUUID(authUsername)

NoAgentTokens ==
    /\ \A i \in DOMAIN jvmArgs : jvmArgs[i] \notin Range(AgentTokens)
    /\ \A i \in DOMAIN launchFile :
          launchFile[i] \notin {writeArg(AgentTokens[1]), writeArg(AgentTokens[2])}

C30_AuthConsistent ==
    /\ AuthSucceeded => IF FellBack THEN OfflineOutcome ELSE OnlineOutcome
    /\ (AuthSucceeded /\ FellBack) => NoAgentTokens
    /\ pc # "idle" => AuthSucceeded

\* The Yggdrasil answer held a token and a profile whose id is not a string:
\* the launcher fell back, and launch_args.txt was written with the jar on
\* disk.
C30_Witness ==
    /\ AuthSucceeded /\ FellBack
    /\ yggResponse = YggResponse("tokenBadProfile", <<"token-1">>, <<>>)
    /\ authUsername = <<"bob">>
    /\ authlibJar
    /\ Written /\ command # NoCommand
    /\ Len(launchFile) > 1
====
